---- MODULE Spec2Model ----
(***************************************************************************)
(* Trade mediator of gblink-pokemon-web: the Gen 2 link mediator           *)
(* (GSCTrading), its mode negotiation, its counter-tagged menu messages,   *)
(* the Gen 3 counter channel (RSESPTrading), the synchronous section       *)
(* exchange and the party update after a trade.                            *)
(***************************************************************************)
EXTENDS Integers, Sequences, FiniteSets, TLC

\* ---------------------------------------------------------------- bounds
MaxCycles == 2
MaxOdd == 1
MaxRefusals == 1
MaxChoices == 3
MaxCycles3 == 3
SecLen == 2
MaxPoll == 1
LastSection == 2
MaxParty == 3
MaxSlots == 2
MaxGlitch == 1
MaxPidByte == 23
PageLen == 3
MaxPatches == 4
MaxCountByte == 7
MaxLinkCycles == 2
MaxPasses == 2
MaxTrades == 2
MaxLength == 3

\* ------------------------------------------------------------- constants
Null == -1
Peers == {1, 2}
Me == 1
MSG_BUF == "BUF2"
MSG_NEG == "NEG2"
MSG_MVS == "MVS2"
MSG_ASK == "ASK2"
MSG_CHC == "CHC2"
MSG_ACP == "ACP2"
MSG_SUC == "SUC2"
Tags == {MSG_BUF, MSG_NEG, MSG_CHC, MSG_ACP, MSG_ASK, MSG_SUC, MSG_MVS}
pool_transfer == "P3SI"
pool_transfer_out == "P3SO"
accept_transfer == <<"A3S1", "A3S2">>
success_transfer == <<"S3S1", "S3S2", "S3S3", "S3S4", "S3S5", "S3S6", "S3S7">>
Tags3 == {pool_transfer, pool_transfer_out} \cup {accept_transfer[i] : i \in 1..2}
           \cup {success_transfer[i] : i \in 1..7}
BUFFERED == 133
SYNC == 18
MAX_ATTEMPTS == 10
FIRST_TRADE_INDEX == 112
STOP_TRADE == 127
ACCEPT_TRADE == 114
DECLINE_TRADE == 113
NEED_DATA_VALUE == 114
NOT_NEED_DATA_VALUE == 67
SUCCESS_VALUE == 144
NO_INPUT == 254
SYNC_MARKER == 65535
TOTAL_SEND_BUF_NEW_BYTES == 8
TOTAL_SEND_BUF_OLD_BYTES == 2
DROP_BYTES_CHECK_VALUE == 253
accept_trade == <<162, 178>>
decline_trade == <<161, 177>>
Deltas3 == {0, 1, 129}
InitCounters == {7, 255}
NegValues == {1, 2}
Deltas == {0, 2, 3, 128, 129}

Other(p) == 3 - p
NoMsg == [ctr |-> Null, val |-> Null]
NoSnd == [peer |-> 0, tag |-> "none", ctr |-> Null, prev |-> Null]
NoRcv == [peer |-> 0, tag |-> "none", ctr |-> Null, expected |-> Null, accepted |-> FALSE]
Diff(counter, expected) == (counter - expected + 256) % 256

\* A faulty variant that leaves the expected counter on the frame's counter.
AfterCounter_Same(counter) == counter

\* The expected counter after a frame with this counter was taken.
AfterCounter(counter) == (counter + 1) % 256
ModeByte(buffered) == IF buffered THEN BUFFERED ELSE SYNC

VARIABLES
  env,                \* TRUE: the peer is the environment; FALSE: two mediators
  pc,                 \* position of each mediator's startTrade flow
  npc,                \* position of each mediator's background negotiation
  negotiationPrompt,  \* whether a prompt callback is configured
  isBuffered,
  ownCounterId,
  peerCounterId,
  lastPeerBufCounter,
  recvDict,
  sendDict,
  inFlight,           \* tags with a frame on its way to the mediator
  weAdapt,
  attempts,
  ourNegValue,
  currentMode,
  peerCurrentMode,
  refusals,
  oddLeft,
  rcv,                \* the counter-tagged frame the last step took, if any
  snd,                \* the counter-tagged frame the last step sent, if any
  lastSent,           \* counter of the previous counter-tagged send
  ownBlankTrade,
  otherBlankTrade,
  bufferedOtherData,  \* whether the peer's sections are cached
  cancelCurrentTrade,
  completedTradeCount,
  cycles,             \* times the player sat at the table
  choices,            \* times the player chose in the menu
  ourChoice,
  ourAccept,
  weNeedMVS2FromPeer,
  pc3,                \* position of the Gen 3 pool trade loop
  round,              \* index of the accept or success round
  declined,           \* whether the cartridge declined in the current round
  own_id,
  other_id,
  recvDict3,
  sendDict3,
  inFlight3,
  lastSent3,          \* counter of the previous frame sent in this session
  cycles3

VARIABLES
  spc,                \* position in readSection / synchExchangeSection
  index,              \* the section being read
  syncSections,       \* link trade in Sync mode (else the section is read locally)
  useNewProtocol,
  i,                  \* synchExchangeSection's position
  buf,                \* our cartridge's bytes
  otherBuf,           \* the peer's bytes written to our cartridge
  recvData,           \* position -> peer byte, as far as known
  pollCount,
  sendBufData,        \* slot -> [pos, val, index] of our outgoing packet
  sendIndex,
  outSNG,             \* sendDict[SNG], the packet sent last
  inboxSNG,           \* recvDict[SNG]
  result,             \* what readSection returned last
  wrote,              \* the cartridge write of the last step, if any
  peerNew,            \* the peer's packet format
  peerSec,            \* the section the peer is in
  peerPhase,          \* "marker", "data" or "complete"
  peerPos             \* the highest position the peer has reported

secVars == <<spc, index, syncSections, useNewProtocol, i, buf, otherBuf, recvData,
             pollCount, sendBufData, sendIndex, outSNG, inboxSNG, result, wrote,
             peerNew, peerSec, peerPhase, peerPos>>

VARIABLES
  ppc,                \* "off", or "menu" while parties are traded
  bufferedOtherData1, \* the peer's cached party section: species list and mons
  gbPartyData,        \* our cartridge's party section: its mons
  own,                \* a GSCTradingData party: partyInfo ids and pokemon
  other,              \* the party it trades with
  tradesDone,
  lastUpdate          \* what the last party update started from, if any

VARIABLES
  tradeData,          \* the sections the cartridge is fed in the current cycle
  isGhostTrade,
  sendDictFLL,        \* sendDict["FLL2"]: whether our FLL was sent
  recvDictFLL,        \* recvDict["FLL2"]: whether the peer's FLL is in the inbox
  inFlightFLL,        \* whether an FLL frame is on its way to the mediator
  getsFLL,            \* whether a G FLL2 of the mediator is on its way
  fllSends            \* times the mediator sent its FLL

VARIABLES
  stopTrade,          \* the protocol's stop flag
  isConnected,        \* WebSocketClient.isConnected
  wpc,                \* where the confirmation loop is: "off", "idle", "loop", "ended"
  gen,                \* generation of the running confirmation loop: 2 or 3
  validSet,           \* the values the running loop accepts
  foundVal,
  consecutiveReads,
  lastRead,           \* latest cartridge read the loop did not ignore
  runLen,             \* how many such reads in a row returned lastRead (up to threshold)
  usedVal                \* the value the caller went on with, sent or fed to the menu

confirmVars == <<stopTrade, isConnected, wpc, gen, validSet, foundVal, consecutiveReads,
                 lastRead, runLen, usedVal>>
VARIABLES
  rpc,                \* where readSection / waitForMessage is suspended
  rindex,             \* section index of the running readSection
  rlength,            \* its length
  ri,                 \* loop variable of its data loop
  sentToGB,           \* positions of the cached section sent to the cartridge, in order
  awaited             \* whether the message waitForMessage waits for is in recvDict

readVars == <<rpc, rindex, rlength, ri, sentToGB, awaited>>
VARIABLES
  vec2FloodInterval,  \* whether the VEC flood timer is set
  sendDictVEC         \* sendDict["VEC2"]: whether the version was announced

floodVars == <<vec2FloodInterval, sendDictVEC>>
VARIABLE
  draw                \* how each mediator's NEG draw came out: "null", "won", "lost"

VARIABLES
  mpc,                \* where tradeStartingSequence is around the mail section
  gbSection1,         \* this.gbPartyData: section 1 as the cartridge sent it
  peerPartyData,      \* the peer's section 1, or NoParty while it is null
  skipSync,           \* the skipSync argument of readSection(3, ...)
  sentSNG,            \* whether synchSynchSection ran for the mail section
  mailPath,           \* the data exchange the mail section took
  bufferedOther3      \* whether this.bufferedOtherData[3] holds the peer's mail

mailVars == <<mpc, gbSection1, peerPartyData, skipSync, sentSNG, mailPath,
              bufferedOther3>>
VARIABLES
  r3pc,               \* where the Gen 3 readSection is: "off", "loop", "returned"
  copy3,              \* which of the two readSection sources runs
  sendDataNull,       \* readSection(null): a pool trade sends no section
  completedData,      \* the completion bitmap, one flag per block
  buf3,               \* the received buffer, one word per block
  numUncompleted,
  sinceLastUseful,
  hasAllData,
  transferSuccessful,
  glitches            \* words the cable has garbled so far

sec3Vars == <<r3pc, copy3, sendDataNull, completedData, buf3, numUncompleted,
              sinceLastUseful, hasAllData, transferSuccessful, glitches>>
VARIABLES
  cpc,                \* where the record is: "off", "record", "decrypted", "encrypted"
  monValues0,         \* the record as it arrived
  monValues,          \* this.values: pid, ot_id, stored checksum, encrypted data
  subs,               \* this.growth, this.attacks, this.evs, this.misc
  checksumFailed

codecVars == <<cpc, monValues0, monValues, subs, checksumFailed>>
VARIABLES
  epc,                \* where the section is: "off", "section", "encoded", "restored"
  section0,           \* the section before createPatchesData
  patchData,          \* data: the section, patched in place
  patchSet            \* the patch list section

patchVars == <<epc, section0, patchData, patchSet>>
VARIABLES
  kpc,                \* where the party header is: "off", "party", "info", "updated"
  countByte,          \* the party count byte of the section (data[start], peerParty[0x0B])
  actualMons,         \* the species list that follows the count byte, slot 0 first
  total,              \* GSCTradingPartyInfo.total
  teamSize,           \* GSCChecks.teamSize
  speciesList,        \* GSCChecks.speciesList, the species bytes the checks let through
  slotsUsed           \* slot indexes updatePeerPartyAfterTrade derived from the count

countVars == <<kpc, countByte, actualMons, total, teamSize, speciesList, slotsUsed>>
VARIABLES
  lpc,                \* where each mediator's Gen 3 linkTradeLoop is
  linkCycle,          \* the pass of its loop, counted from 1
  sendDictFL3S,       \* ws.sendDict[full_transfer]: the pass whose party it holds, or Null
  recvDictFL3S,       \* ws.recvDict[full_transfer], likewise
  otherData,          \* what forceReceive(getBigTradingData) returned
  other_pokemon,      \* the peer party written to the cartridge and kept for the menu
  sentChosenMon,      \* the pass of the last choice sent with a counter
  sentSuccess         \* the pass of the last final success sent with a counter

fl3Vars == <<lpc, linkCycle, sendDictFL3S, recvDictFL3S, otherData, other_pokemon,
             sentChosenMon, sentSuccess>>
VARIABLES
  tpc,                \* where startTrade's session loop is
  generation,         \* 2 for GSCTrading, 1 for RBYTrading
  passes,             \* passes of the session loop begun
  timers,             \* interval timers set and not cleared
  msgTag,             \* the tag startVEC2Flood captured for its closure
  emitted             \* the last frame the flood timer handed to ws.sendData

loopVars == <<tpc, generation, passes, timers, msgTag, emitted>>
extraVars == <<patchVars, countVars, fl3Vars, loopVars>>
moreVars == <<draw, mailVars, sec3Vars, codecVars, extraVars>>
restVars == <<confirmVars, readVars, floodVars, moreVars>>

VARIABLE
  staleMoves          \* the cached last slot holds moves the peer's cartridge replaced

fllRest == <<isGhostTrade, sendDictFLL, recvDictFLL, inFlightFLL, getsFLL, fllSends>>
fllVars == <<tradeData, fllRest>>

partyVars == <<ppc, bufferedOtherData1, gbPartyData, own, other, tradesDone, lastUpdate>>

negVars == <<weAdapt, attempts, ourNegValue, currentMode, peerCurrentMode, refusals>>
tradeVars == <<ownBlankTrade, otherBlankTrade, bufferedOtherData, cancelCurrentTrade,
               completedTradeCount, cycles, choices, ourChoice, ourAccept,
               weNeedMVS2FromPeer>>
linkVars == <<env, pc, npc, negotiationPrompt, isBuffered, ownCounterId, peerCounterId,
              lastPeerBufCounter, recvDict, sendDict, inFlight, negVars, oddLeft,
              rcv, snd, lastSent, tradeVars>>
linkRest == <<env, pc, npc, negotiationPrompt, isBuffered, ownCounterId, peerCounterId,
              lastPeerBufCounter, recvDict, sendDict, inFlight, negVars, lastSent,
              tradeVars, secVars, partyVars, restVars, fllVars, staleMoves>>
gen3Vars == <<pc3, round, declined, own_id, other_id, recvDict3, sendDict3, inFlight3,
              lastSent3, cycles3>>
nonLink == <<gen3Vars, secVars, partyVars, restVars, fllVars>>
vars == <<linkVars, nonLink, staleMoves>>

\* ------------------------------------------------------------------ Init
InitLink(at) ==
  /\ pc = [p \in Peers |-> at]
  /\ npc = [p \in Peers |-> "idle"]
  /\ negotiationPrompt \in [Peers -> BOOLEAN]
  /\ isBuffered \in [Peers -> BOOLEAN]
  /\ ownCounterId = [p \in Peers |-> Null]
  /\ peerCounterId = [p \in Peers |-> Null]
  /\ lastPeerBufCounter = [p \in Peers |-> Null]
  /\ recvDict = [p \in Peers |-> [t \in Tags |-> NoMsg]]
  /\ sendDict = [p \in Peers |-> [t \in Tags |-> NoMsg]]
  /\ inFlight = [p \in Peers |-> {}]
  /\ weAdapt = [p \in Peers |-> "null"]
  /\ attempts = [p \in Peers |-> 0]
  /\ ourNegValue = [p \in Peers |-> 0]
  /\ currentMode = [p \in Peers |-> FALSE]
  /\ peerCurrentMode = [p \in Peers |-> FALSE]
  /\ refusals = [p \in Peers |-> 0]
  /\ oddLeft = MaxOdd
  /\ rcv = NoRcv
  /\ snd = NoSnd
  /\ lastSent = [p \in Peers |-> Null]
  /\ ownBlankTrade = [p \in Peers |-> TRUE]
  /\ otherBlankTrade = [p \in Peers |-> TRUE]
  /\ bufferedOtherData = [p \in Peers |-> FALSE]
  /\ cancelCurrentTrade = [p \in Peers |-> FALSE]
  /\ completedTradeCount = [p \in Peers |-> 0]
  /\ cycles = [p \in Peers |-> 0]
  /\ choices = [p \in Peers |-> 0]
  /\ ourChoice = [p \in Peers |-> 0]
  /\ ourAccept = [p \in Peers |-> 0]
  /\ weNeedMVS2FromPeer = [p \in Peers |-> FALSE]
  /\ tradeData = [p \in Peers |-> "none"]
  /\ isGhostTrade = [p \in Peers |-> FALSE]
  /\ sendDictFLL = [p \in Peers |-> FALSE]
  /\ recvDictFLL = [p \in Peers |-> FALSE]
  /\ inFlightFLL = [p \in Peers |-> FALSE]
  /\ getsFLL = [p \in Peers |-> FALSE]
  /\ fllSends = [p \in Peers |-> 0]
  /\ staleMoves = [p \in Peers |-> FALSE]
  /\ vec2FloodInterval = [p \in Peers |-> FALSE]
  /\ draw = [p \in Peers |-> "null"]
  /\ sendDictVEC = [p \in Peers |-> FALSE]
  /\ stopTrade = FALSE
  /\ isConnected = TRUE
  /\ gen = 2
  /\ validSet = {}
  /\ foundVal = Null
  /\ consecutiveReads = 0
  /\ lastRead = Null
  /\ runLen = 0
  /\ usedVal = Null
  /\ rindex = 0
  /\ rlength = 0
  /\ ri = 0
  /\ sentToGB = <<>>
  /\ awaited = FALSE

NoPacket == [new |-> FALSE, kind |-> "none", index |-> 0, entries |-> {}]
NoEntry == [pos |-> SYNC_MARKER, val |-> 255, index |-> 0]
NoWrite == [sec |-> 0, pos |-> 0, val |-> Null, answer |-> Null]
Slots == 0 .. (TOTAL_SEND_BUF_NEW_BYTES - 1)

InitSec(at) ==
  /\ spc = at
  /\ index = 1
  /\ syncSections \in (IF at = "off" THEN {FALSE} ELSE BOOLEAN)
  /\ useNewProtocol \in (IF at = "off" THEN {FALSE} ELSE BOOLEAN)
  /\ i = 0
  /\ buf = <<>>
  /\ otherBuf = <<>>
  /\ recvData = [pos \in 0 .. SecLen |-> Null]
  /\ pollCount = 0
  /\ sendBufData = [slot \in Slots |-> NoEntry]
  /\ sendIndex = 0
  /\ outSNG = NoPacket
  /\ inboxSNG = NoPacket
  /\ result = <<>>
  /\ wrote = NoWrite
  /\ peerNew \in (IF at = "off" THEN {FALSE} ELSE BOOLEAN)
  /\ peerSec = 1
  /\ peerPhase = "marker"
  /\ peerPos = 0

NoUpdate == [kind |-> "none", before |-> <<>>, traded |-> 0, incoming |-> 0]

\* Our mons are 1, 2, ..., the peer's 11, 12, ...; a party holds 1 to
\* MaxParty of them.
PartyOf(first, size) == [slot \in 1 .. size |-> first + slot]
Species(mon) == 100 + mon
SpeciesList(mons) == [slot \in 1 .. Len(mons) |-> Species(mons[slot])]

InitParty(at) ==
  /\ ppc = at
  /\ \E n \in (IF at = "off" THEN {1} ELSE 1 .. MaxParty) :
       /\ bufferedOtherData1 = [species |-> SpeciesList(PartyOf(10, n)),
                                core |-> PartyOf(10, n)]
       /\ other = [partyInfo |-> SpeciesList(PartyOf(10, n)), pokemon |-> PartyOf(10, n)]
  /\ \E m \in (IF at = "off" THEN {1} ELSE 1 .. MaxParty) :
       /\ gbPartyData = PartyOf(0, m)
       /\ own = [partyInfo |-> SpeciesList(PartyOf(0, m)), pokemon |-> PartyOf(0, m)]
  /\ tradesDone = 0
  /\ lastUpdate = NoUpdate

Init3(at) ==
  /\ pc3 = at
  /\ round = 0
  /\ declined = FALSE
  /\ own_id = Null
  /\ other_id = Null
  /\ recvDict3 = [t \in Tags3 |-> NoMsg]
  /\ sendDict3 = [t \in Tags3 |-> NoMsg]
  /\ inFlight3 = {}
  /\ lastSent3 = Null
  /\ cycles3 = 0

\* ------------------------------------------------------- mail section
\* Section 1 as far as the mail detection reads it: the byte at offset 0
\* (the first letter of the trainer name), the party count at offset
\* TRADING_PARTY_INFO_POS, and the held item of each of the MaxSlots mons
\* (offset TRADING_POKEMON_POS + slot * TRADING_POKEMON_LENGTH +
\* POKEMON_ITEM_OFFSET). The slots after the count hold what the cartridge
\* left there.
MAIL_ITEM_IDS == 158 .. 168
NameBytes == {1, 128}
ItemBytes == {0, 158, 169}
NoParty == [first |-> Null, count |-> 0, items |-> <<>>]
Parties == [first : NameBytes, count : 1 .. MaxSlots,
            items : [1 .. MaxSlots -> ItemBytes]]

Min(a, b) == IF a < b THEN a ELSE b

\* A faulty variant that takes every held item for mail.
partyHasMail_AnyItem(partyData) ==
  IF partyData = NoParty THEN FALSE
  ELSE LET partySize == Min(partyData.first, MaxSlots)
       IN \E slot \in 0 .. (partySize - 1) : partyData.items[slot + 1] # 0

\* partyHasMail(partyData): the party size is read at offset 0 and capped
\* at the number of slots; the held item of each slot below it is looked up
\* in MAIL_ITEM_IDS.
partyHasMail(partyData) ==
  IF partyData = NoParty THEN FALSE
  ELSE LET partySize == Min(partyData.first, MaxSlots)
       IN \E slot \in 0 .. (partySize - 1) :
            partyData.items[slot + 1] \in MAIL_ITEM_IDS

\* Some slot of the section holds a mail item.
mailOnSomeSlot(partyData) ==
  \E slot \in 1 .. Len(partyData.items) : partyData.items[slot] \in MAIL_ITEM_IDS

isLinkTrade == pc3 = "off"

\* readSection's test for the SNG sync and the network exchange.
useSyncForSection(idx, skip) ==
  /\ isLinkTrade /\ ~isBuffered[Me] /\ ~skip
  /\ (IF useNewProtocol THEN idx > 0 ELSE TRUE)

useBufferedRead == isBuffered[Me] /\ bufferedOther3

InitMail(at) ==
  /\ mpc = at
  /\ gbSection1 = NoParty
  /\ peerPartyData = NoParty
  /\ skipSync = FALSE
  /\ sentSNG = FALSE
  /\ mailPath = "none"
  /\ bufferedOther3 \in (IF at = "off" THEN {FALSE} ELSE BOOLEAN)

\* ------------------------------------------------- Gen 3 section read
\* The section layout of RSESPTradingData in words, scaled down: one word of
\* mail, the mail sum, the party count, one word of party data, the party
\* sum, and the trailing global sum. A block stands for one word.
TRADING_MAIL_POS3 == 0
MailChecksumPos == 1
TRADING_PARTY_INFO_POS3 == 2
TRADING_POKEMON_POS3 == 3
PartyChecksumPos == 4
numBlocks == 6
since_last_useful_limit == 10
Blocks == 0 .. (numBlocks - 1)

\* The section the cartridge holds, with sums that validate.
CartridgeSection == [b \in Blocks |->
  CASE b = TRADING_MAIL_POS3 -> 1
    [] b = MailChecksumPos -> 1
    [] b = TRADING_PARTY_INFO_POS3 -> 1
    [] b = TRADING_POKEMON_POS3 -> 1
    [] b = PartyChecksumPos -> 2
    [] OTHER -> 6]

RECURSIVE SumWords(_, _, _)
SumWords(data, from, to) ==
  IF from > to THEN 0 ELSE data[from] + SumWords(data, from + 1, to)

\* RSESPTradingData.areChecksumValid(buf, lengths): the mail sum, the party
\* sum that starts from the party count, and the sum of every word before
\* the last one. The sums of this layout stay far below 2^32.
areChecksumValid(data) ==
  /\ data[MailChecksumPos] = SumWords(data, TRADING_MAIL_POS3, MailChecksumPos - 1)
  /\ data[PartyChecksumPos] =
       data[TRADING_PARTY_INFO_POS3] + SumWords(data, TRADING_POKEMON_POS3, PartyChecksumPos - 1)
  /\ data[numBlocks - 1] = SumWords(data, 0, numBlocks - 2)

\* What interpretInDataSetupGen3 can return: is_complete needs is_done, and
\* a valid word has a position inside the section.
Results3 == {res \in [is_valid : BOOLEAN, is_asking : BOOLEAN, is_complete : BOOLEAN,
                      is_done : BOOLEAN, position : Blocks] :
               /\ res.is_complete => res.is_done
               /\ ~res.is_valid => res.position = 0}

InitSec3(at) ==
  /\ r3pc = at
  /\ copy3 \in (IF at = "off" THEN {"part_005"} ELSE {"part_005", "services"})
  /\ sendDataNull \in (IF at = "off" THEN {TRUE} ELSE BOOLEAN)
  /\ completedData = [b \in Blocks |-> FALSE]
  /\ buf3 = [b \in Blocks |-> 0]
  /\ numUncompleted = numBlocks
  /\ sinceLastUseful = since_last_useful_limit
  /\ hasAllData = FALSE
  /\ transferSuccessful = FALSE
  /\ glitches = 0

\* ------------------------------------------------- Gen 3 record codec
\* A record is held as its bytes, as in this.values: PID and OT id (four
\* bytes each, little endian), the stored checksum (two bytes) and the
\* ENC_DATA_LEN encrypted bytes, four blocks of blockSize bytes.
ENC_DATA_LEN == 48
blockSize == 12
NoSubs == [growth |-> <<>>, attacks |-> <<>>, evs |-> <<>>, misc |-> <<>>]
NoRecord == [pid |-> <<>>, ot_id |-> <<>>, checksum |-> <<>>, enc |-> <<>>]

\* init_enc_positions(): the 24 orders, in the order of the four nested
\* loops; 0 goes to the bit pair i, 1 to j, 2 to k, 3 to l.
Pow4(n) == IF n = 0 THEN 1 ELSE IF n = 1 THEN 4 ELSE IF n = 2 THEN 16 ELSE 64
LoopTuples == {t \in [1 .. 4 -> 0 .. 3] : \A a, b \in 1 .. 4 : a # b => t[a] # t[b]}
Before(s, t) == \E a \in 1 .. 4 : s[a] < t[a] /\ \A b \in 1 .. (a - 1) : s[b] = t[b]
Position(t) == 0 * Pow4(t[1]) + 1 * Pow4(t[2]) + 2 * Pow4(t[3]) + 3 * Pow4(t[4])
enc_positions ==
  [n \in 0 .. 23 |->
     Position(CHOOSE t \in LoopTuples : Cardinality({s \in LoopTuples : Before(s, t)}) = n)]

\* (order >> (2 * j)) & 3
Pair(order, j) == (order \div Pow4(j)) % 4

\* a ^ b on n bits.
RECURSIVE Xor(_, _, _)
Xor(a, b, n) ==
  IF n = 0 THEN 0 ELSE ((a + b) % 2) + 2 * Xor(a \div 2, b \div 2, n - 1)

\* readInt(data, offset) ^ pid ^ ot_id, expanded to its four bytes: the
\* exclusive or of a word is the exclusive or of its bytes.
XorWords(data, pid, ot_id) ==
  [n \in 1 .. Len(data) |->
     Xor(Xor(data[n], pid[((n - 1) % 4) + 1], 8), ot_id[((n - 1) % 4) + 1], 8)]

\* The checksum loop: the low and the high half of every word are added
\* into a 16-bit sum.
RECURSIVE Checksum(_, _)
Checksum(data, words) ==
  IF words = 0 THEN 0
  ELSE LET at == (words - 1) * 4
           low == data[at + 1] + 256 * data[at + 2]
           high == data[at + 3] + 256 * data[at + 4]
       IN (((Checksum(data, words - 1) + low) % 65536) + high) % 65536

readShort(short) == short[1] + 256 * short[2]
writeShort(val) == <<val % 256, (val \div 256) % 256>>

\* this.pid % enc_positions.length for the four bytes of the PID, reduced
\* at every byte.
PidIndex(pid) == ((((((pid[4] % 24) * 256 + pid[3]) % 24) * 256 + pid[2]) % 24) * 256 + pid[1]) % 24

Slice(data, block) == SubSeq(data, blockSize * block + 1, blockSize * (block + 1))

\* A faulty variant that writes the substructures back in their own order.
ReverseShuffle_InOrder(order, s) == s.growth \o s.attacks \o s.evs \o s.misc

\* encryptData's reverse shuffle: for every block position i, the
\* substructures whose bit pair holds the position are appended.
ReverseShuffle(order, s) ==
  LET sub(j) == IF j = 0 THEN s.growth ELSE IF j = 1 THEN s.attacks
                ELSE IF j = 2 THEN s.evs ELSE s.misc
      pick(pos, j) == IF Pair(order, j) = pos THEN sub(j) ELSE <<>>
      at(pos) == pick(pos, 0) \o pick(pos, 1) \o pick(pos, 2) \o pick(pos, 3)
  IN at(0) \o at(1) \o at(2) \o at(3)

\* The records the codec is run on: blocks, PIDs and OT ids from samples,
\* with the stored checksum right or off by one.
SampleBlocks == {<<1, 2, 3, 4, 5, 6, 7, 8, 9, 10, 11, 12>>,
                 <<255, 254, 128, 127, 0, 0, 0, 0, 170, 85, 204, 51>>,
                 <<200, 100, 50, 25, 255, 255, 255, 255, 16, 32, 64, 128>>}
SamplePIDs == {<<b, 0, 0, 0>> : b \in 0 .. MaxPidByte}
                 \cup {<<b, 173, 190, 222>> : b \in 0 .. MaxPidByte}
SampleOTs == {<<0, 0, 0, 0>>, <<120, 86, 52, 18>>}

InitCodec(at) ==
  /\ cpc = at
  /\ IF at = "off"
     THEN monValues0 = NoRecord
     ELSE \E pid \in SamplePIDs, ot_id \in SampleOTs, off \in {0, 1},
             b0 \in SampleBlocks, b1 \in SampleBlocks, b2 \in SampleBlocks,
             b3 \in SampleBlocks :
            LET enc == b0 \o b1 \o b2 \o b3
                sum == Checksum(XorWords(enc, pid, ot_id), ENC_DATA_LEN \div 4)
            IN monValues0 = [pid |-> pid, ot_id |-> ot_id,
                          checksum |-> writeShort((sum + off) % 65536), enc |-> enc]
  /\ monValues = monValues0
  /\ subs = NoSubs
  /\ checksumFailed = FALSE

\* ------------------------------------------------------ patch sets
\* The layout of the Pokemon patch set, scaled down: the patched range of
\* the section starts at patch_set_base_pos and spans patchSetsNum pages of
\* PageLen bytes (0xFC in the program), the last one cut short by the end of
\* the section; the patch list starts at patch_set_start_info_pos of the
\* patch section and has room for MaxPatches entries.
patchSetsNum == 2
patch_set_base_pos == 1
patch_set_start_info_pos == 1
SectionLength == patch_set_base_pos + 2 * PageLen - 1
PatchLength == patch_set_start_info_pos + MaxPatches
PatchBytes == {0, 254, 255}
Sections == [0 .. (SectionLength - 1) -> PatchBytes]

\* The while loop of createPatchesData, from the state st on.
RECURSIVE createLoop(_)
createLoop(st) ==
  IF st.remaining > 0 /\ (patch_set_start_info_pos + st.i) < PatchLength
       /\ (st.base + st.j) < SectionLength
  THEN LET found == st.data[st.base + st.j] = 254
           data1 == IF found THEN [st.data EXCEPT ![st.base + st.j] = 255] ELSE st.data
           set1 == IF found
                   THEN [st.set EXCEPT ![patch_set_start_info_pos + st.i] = st.j + 1]
                   ELSE st.set
           i1 == IF found THEN st.i + 1 ELSE st.i
           j1 == st.j + 1
       IN IF j1 = PageLen
          THEN createLoop([data |-> data1,
                           set |-> [n \in DOMAIN set1 |->
                                      IF n = patch_set_start_info_pos + i1 THEN 255
                                      ELSE set1[n]],
                           base |-> st.base + PageLen, i |-> i1 + 1, j |-> 0,
                           remaining |-> st.remaining - 1])
          ELSE createLoop([data |-> data1, set |-> set1, base |-> st.base, i |-> i1,
                           j |-> j1, remaining |-> st.remaining])
  ELSE st

\* createPatchesData(data, patchSet, false): the loop, then the terminator
\* of a page that was cut short, moved back into the list when it is full.
createPatchesData(data, set) ==
  LET st == createLoop([data |-> data, set |-> set, base |-> patch_set_base_pos,
                        i |-> 0, j |-> 0, remaining |-> patchSetsNum])
      at == IF (patch_set_start_info_pos + st.i) >= PatchLength
            THEN PatchLength - patch_set_start_info_pos - 1 ELSE st.i
  IN [data |-> st.data,
      set |-> IF st.j # 0
              THEN [n \in DOMAIN st.set |->
                      IF n = patch_set_start_info_pos + at THEN 255 ELSE st.set[n]]
              ELSE st.set]

\* The while loop of applyPatches(data, patchSet, false).
RECURSIVE applyPatches(_, _, _, _, _)
applyPatches(data, set, base, at, remaining) ==
  IF remaining > 0 /\ (patch_set_start_info_pos + at) < PatchLength
  THEN LET readPos == set[patch_set_start_info_pos + at]
       IN IF readPos = 255
          THEN applyPatches(data, set, base + PageLen, at + 1, remaining - 1)
          ELSE IF readPos > 0 /\ (readPos + base - 1) < SectionLength
          THEN applyPatches([data EXCEPT ![readPos + base - 1] = 254], set, base,
                            at + 1, remaining)
          ELSE applyPatches(data, set, base, at + 1, remaining)
  ELSE data

InitPatch(at) ==
  /\ epc = at
  /\ section0 \in (IF at = "off" THEN {<<>>} ELSE Sections)
  /\ patchData = section0
  /\ patchSet = [n \in 0 .. (PatchLength - 1) |-> 0]

MAX_PARTY_MONS == 6

\* Species bytes: a species id and the list's 0xFF filler.
SpeciesBytes == {1, 255}


\* A party header as it arrives: any count byte, six species bytes.
InitCount(at) ==
  /\ kpc = at
  /\ countByte \in (IF at = "off" THEN {1} ELSE 0 .. MaxCountByte)
  /\ actualMons \in (IF at = "off" THEN {<<>>} ELSE [1 .. MAX_PARTY_MONS -> SpeciesBytes])
  /\ total = Null
  /\ teamSize = Null
  /\ speciesList = <<>>
  /\ slotsUsed = {}

InitFL3(at) ==
  /\ lpc = [p \in Peers |-> at]
  /\ linkCycle = [p \in Peers |-> 0]
  /\ sendDictFL3S = [p \in Peers |-> Null]
  /\ recvDictFL3S = [p \in Peers |-> Null]
  /\ otherData = [p \in Peers |-> Null]
  /\ other_pokemon = [p \in Peers |-> Null]
  /\ sentChosenMon = [p \in Peers |-> 0]
  /\ sentSuccess = [p \in Peers |-> 0]

NoFrame == [tag |-> "none", data |-> <<>>]

InitLoop(at) ==
  /\ tpc = at
  /\ generation \in (IF at = "off" THEN {2} ELSE {1, 2})
  /\ passes = 0
  /\ timers = 0
  /\ msgTag = "none"
  /\ emitted = NoFrame

InitMore(at) ==
  /\ InitMail(IF at = "mail" THEN "section1" ELSE "off")
  /\ InitSec3(IF at = "sec3" THEN "loop" ELSE "off")
  /\ InitCodec(IF at = "codec" THEN "record" ELSE "off")
  /\ InitPatch(IF at = "patch" THEN "section" ELSE "off")
  /\ InitCount(IF at = "count" THEN "party" ELSE "off")
  /\ InitFL3(IF at = "fl3" THEN "loop" ELSE "off")
  /\ InitLoop(IF at = "flood" THEN "loop" ELSE "off")

\* ------------------------------------------------------- relay client
NoOut == [tag |-> "none", ctr |-> Null, val |-> Null]
Out(tag, ctr, val) == [tag |-> tag, ctr |-> ctr, val |-> val]

\* What one step of mediator p does to the relay client: at most one
\* sendData(out) (kept in sendDict for later GETs and pushed to the peer),
\* sendGetData for the tags in gets, and the inbox left as rd.  Facing the
\* environment nothing reads the outbox, so it is not kept.
Relay(p, out, gets, rd) ==
  /\ sendDict' = IF out.tag = "none" \/ env THEN sendDict
                 ELSE [sendDict EXCEPT ![p][out.tag] = [ctr |-> out.ctr, val |-> out.val]]
  /\ snd' = IF out.tag = "none" THEN NoSnd
            ELSE [peer |-> p, tag |-> out.tag, ctr |-> out.ctr, prev |-> lastSent[p]]
  /\ inFlight' = [q \in Peers |->
                    IF q = p THEN inFlight[q] \cup gets
                    ELSE IF ~env /\ out.tag # "none" THEN inFlight[q] \cup {out.tag}
                    ELSE inFlight[q]]
  /\ recvDict' = [recvDict EXCEPT ![p] = rd]
  /\ lastSent' = IF out.tag = "none" THEN lastSent
                 ELSE [lastSent EXCEPT ![p] = out.ctr]

\* The inbox entry a frame leaves.  No code reads the counter byte of a NEG
\* frame (only its value is compared), so the inbox keeps the value alone.
Stored(tag, msg) == IF tag = MSG_NEG THEN [ctr |-> Null, val |-> msg.val] ELSE msg

\* WebSocketClient.processReceivedData between two mediators: a GET is
\* answered by the other side out of its sendDict, a SEND lands in recvDict.
processReceivedData(p, tag) ==
  /\ ~env
  /\ tag \in inFlight[p]
  /\ inFlight' = [inFlight EXCEPT ![p] = @ \ {tag}]
  /\ recvDict' = IF sendDict[Other(p)][tag] # NoMsg
                 THEN [recvDict EXCEPT ![p][tag] = Stored(tag, sendDict[Other(p)][tag])]
                 ELSE recvDict
  /\ rcv' = NoRcv
  /\ snd' = NoSnd
  /\ UNCHANGED <<env, pc, npc, negotiationPrompt, isBuffered, ownCounterId,
                 peerCounterId, lastPeerBufCounter, sendDict, negVars, oddLeft,
                 lastSent,
                 tradeVars, nonLink, staleMoves>>

\* The peer seen from one mediator: a peer that announces the mode the
\* mediator holds (the negotiation of differing modes is SpecNeg's).  A frame
\* answers a pending GET for the tag the mediator is waiting on.  The counter
\* of a frame is taken relative to the expected counter, and one other than
\* the expected counter uses up the budget oddLeft.
EnvValues(tag) ==
  CASE tag = MSG_BUF -> {ModeByte(isBuffered[Me])}
    [] tag = MSG_CHC -> {FIRST_TRADE_INDEX, STOP_TRADE}
    [] tag = MSG_ACP -> {ACCEPT_TRADE, DECLINE_TRADE}
    [] tag = MSG_ASK -> {NEED_DATA_VALUE, NOT_NEED_DATA_VALUE}
    [] tag = MSG_SUC -> {SUCCESS_VALUE}
    [] OTHER -> {0}

Awaited(p) ==
  (IF npc[p] = "waitForPeer" THEN {MSG_BUF} ELSE {})
  \cup
  (CASE pc[p] = "chkCHC" -> {MSG_CHC}
     [] pc[p] = "chkACP" -> {MSG_ACP}
     [] pc[p] = "waitASK" -> {MSG_ASK}
     [] pc[p] = "chkSUC" -> {MSG_SUC}
     [] pc[p] = "recvMVS" -> {MSG_MVS}
     [] OTHER -> {})

EnvCounters(p, tag) ==
  IF peerCounterId[p] = Null
  THEN {[ctr |-> c, odd |-> FALSE] : c \in InitCounters}
  ELSE {[ctr |-> (peerCounterId[p] + d) % 256, odd |-> d # 0] : d \in Deltas}

peerSends(tag) ==
  /\ env
  /\ tag \in inFlight[Me] \cap Awaited(Me)
  /\ \E c \in EnvCounters(Me, tag), v \in EnvValues(tag) :
       /\ c.odd => oddLeft > 0
       /\ oddLeft' = IF c.odd THEN oddLeft - 1 ELSE oddLeft
       /\ recvDict' = [recvDict EXCEPT ![Me][tag] = [ctr |-> c.ctr, val |-> v]]
  /\ inFlight' = [inFlight EXCEPT ![Me] = @ \ {tag}]
  /\ rcv' = NoRcv
  /\ snd' = NoSnd
  /\ UNCHANGED <<env, pc, npc, negotiationPrompt, isBuffered, ownCounterId,
                 peerCounterId, lastPeerBufCounter, sendDict, negVars, lastSent,
                 tradeVars, nonLink, staleMoves>>

\* ------------------------------------------------------- startTrade
\* Math.random() * 256, cut down to two draws for a mediator facing the
\* environment and to one draw each for two mediators facing each other.
RandomCounter(p) == IF env THEN InitCounters ELSE IF p = 1 THEN {255} ELSE {7}

\* startVEC2Flood: sets the 200 ms timer unless it is set already.
startVEC2Flood(p) == [vec2FloodInterval EXCEPT ![p] = TRUE]

\* stopVEC2Flood: clears the timer.
stopVEC2Flood(p) == [vec2FloodInterval EXCEPT ![p] = FALSE]

\* The timer's callback: announces the version if the relay is connected.
vec2Flood(p) ==
  /\ vec2FloodInterval[p]
  /\ isConnected
  /\ sendDictVEC' = [sendDictVEC EXCEPT ![p] = TRUE]
  /\ UNCHANGED <<linkVars, gen3Vars, secVars, partyVars, confirmVars, readVars, moreVars,
                 vec2FloodInterval, fllVars, staleMoves>>

\* Draws the outbound counter, pre-populates and sends BUF, starts the
\* background negotiation (waitForPeer polls G BUF), enters the room and
\* starts the VEC flood at the top of the trade loop.  Each later pass of the
\* loop stops the flood when its sequence has returned and starts it again at
\* the loop top without a suspension in between, so the timer stays set.
startTrade(p) ==
  /\ pc[p] = "start"
  /\ \E c \in RandomCounter(p) :
       /\ Relay(p, Out(MSG_BUF, c, ModeByte(isBuffered[p])), {MSG_BUF}, recvDict[p])
       /\ ownCounterId' = [ownCounterId EXCEPT ![p] = (c + 1) % 256]
  /\ npc' = [npc EXCEPT ![p] = "waitForPeer"]
  /\ pc' = [pc EXCEPT ![p] = "sit"]
  /\ ownBlankTrade' = [ownBlankTrade EXCEPT ![p] = TRUE]
  /\ otherBlankTrade' = [otherBlankTrade EXCEPT ![p] = TRUE]
  /\ rcv' = NoRcv
  /\ vec2FloodInterval' = startVEC2Flood(p)
  /\ UNCHANGED <<env, negotiationPrompt, isBuffered, peerCounterId,
                 lastPeerBufCounter, negVars, oddLeft, bufferedOtherData,
                 cancelCurrentTrade, completedTradeCount, cycles, choices, ourChoice,
                 ourAccept, weNeedMVS2FromPeer, gen3Vars, secVars, partyVars,
                 confirmVars, readVars, moreVars, sendDictVEC, fllVars, staleMoves>>

\* ------------------------------------------- completeBufferedNegotiation
\* Where the negotiation goes after a pass of the step-2 loop body.
Step2Next(cur, peerCur) == IF cur # peerCur THEN "step2" ELSE "done"

\* The locals of completeBufferedNegotiation; they are gone when it returns.
NegLocals(p, at, w, n, v, cur, peerCur, r) ==
  /\ npc' = [npc EXCEPT ![p] = at]
  /\ weAdapt' = [weAdapt EXCEPT ![p] = IF at = "done" THEN "null" ELSE w]
  /\ attempts' = [attempts EXCEPT ![p] = IF at = "done" THEN 0 ELSE n]
  /\ ourNegValue' = [ourNegValue EXCEPT ![p] = IF at = "done" THEN 0 ELSE v]
  /\ currentMode' = [currentMode EXCEPT ![p] = IF at = "done" THEN FALSE ELSE cur]
  /\ peerCurrentMode' = [peerCurrentMode EXCEPT ![p] = IF at = "done" THEN FALSE ELSE peerCur]
  /\ refusals' = [refusals EXCEPT ![p] = IF at = "done" THEN 0 ELSE r]

\* waitForPeer resolves once the peer's BUF is in the inbox; the negotiation
\* then reads it, initialises peerCounterId and compares the two modes.
negReadBuf(p) ==
  /\ npc[p] = "waitForPeer"
  /\ recvDict[p][MSG_BUF] # NoMsg
  /\ LET peerBuf == recvDict[p][MSG_BUF]
         peerBuffered == (peerBuf.val = BUFFERED)
     IN /\ peerCounterId' = [peerCounterId EXCEPT ![p] = AfterCounter(peerBuf.ctr)]
        /\ lastPeerBufCounter' = [lastPeerBufCounter EXCEPT ![p] = peerBuf.ctr]
        /\ rcv' = [peer |-> p, tag |-> MSG_BUF, ctr |-> peerBuf.ctr,
                   expected |-> peerCounterId[p], accepted |-> TRUE]
        /\ NegLocals(p, IF isBuffered[p] = peerBuffered THEN "done" ELSE "negSend",
                     "null", 0, 0, isBuffered[p], peerBuffered, 0)
  /\ Relay(p, NoOut, {MSG_BUF}, recvDict[p])
  /\ UNCHANGED <<env, pc, negotiationPrompt, isBuffered, ownCounterId, oddLeft,
                 tradeVars, nonLink, staleMoves>>

\* Step 1, first half of a round: draw a value, send NEG, ask for the peer's.
negSend(p) ==
  /\ npc[p] = "negSend"
  /\ \E v \in NegValues :
       /\ ourNegValue' = [ourNegValue EXCEPT ![p] = v]
       /\ Relay(p, Out(MSG_NEG, ownCounterId[p], v), {MSG_NEG}, recvDict[p])
  /\ ownCounterId' = [ownCounterId EXCEPT ![p] = (@ + 1) % 256]
  /\ npc' = [npc EXCEPT ![p] = "negWait"]
  /\ rcv' = NoRcv
  /\ UNCHANGED <<env, pc, negotiationPrompt, isBuffered, peerCounterId,
                 lastPeerBufCounter, weAdapt, attempts, currentMode,
                 peerCurrentMode, refusals, oddLeft, tradeVars, nonLink, staleMoves>>

\* A faulty variant of the fallback that keeps the mode.
NoWinnerMode_Keep(mode) == mode

\* The fallback when no round had a winner: this.isBuffered = false.
NoWinnerMode(mode) == FALSE

\* Step 1, second half: waitForMessage(NEG) hands over whatever NEG the inbox
\* holds (it is not removed); the higher value keeps its mode, a tie re-draws,
\* and MAX_ATTEMPTS rounds without a winner fall back to Sync.
negRecv(p) ==
  /\ npc[p] = "negWait"
  /\ recvDict[p][MSG_NEG] # NoMsg
  /\ LET peerNegValue == recvDict[p][MSG_NEG].val
         w == IF peerNegValue > ourNegValue[p] THEN "true"
              ELSE IF peerNegValue < ourNegValue[p] THEN "false"
              ELSE "null"
         n == attempts[p] + 1
         noWinner == w = "null" /\ n >= MAX_ATTEMPTS
     IN /\ NegLocals(p, IF w = "null" /\ n < MAX_ATTEMPTS THEN "negSend"
                        ELSE IF w = "null" THEN "done"
                        ELSE "step2",
                     w, n, ourNegValue[p], currentMode[p], peerCurrentMode[p], 0)
        /\ isBuffered' = [isBuffered EXCEPT ![p] =
                             IF noWinner THEN NoWinnerMode(@) ELSE @]
        /\ draw' = [draw EXCEPT ![p] = IF w = "true" THEN "lost"
                                       ELSE IF w = "false" THEN "won" ELSE @]
  /\ rcv' = NoRcv
  /\ Relay(p, NoOut, {}, recvDict[p])
  /\ UNCHANGED <<env, pc, negotiationPrompt, ownCounterId, peerCounterId,
                 lastPeerBufCounter, oddLeft, tradeVars, gen3Vars, secVars, partyVars,
                 confirmVars, readVars, floodVars, mailVars, sec3Vars, codecVars, extraVars,
                 fllVars, staleMoves>>

\* Step 2, we adapt: ask the user (or switch by default), send a fresh BUF
\* with the mode we now hold, and hand the turn over.
negDecide(p) ==
  /\ npc[p] = "step2"
  /\ weAdapt[p] = "true"
  /\ \E shouldSwitch \in (IF negotiationPrompt[p] THEN BOOLEAN ELSE {TRUE}) :
       LET mode == IF shouldSwitch THEN peerCurrentMode[p] ELSE isBuffered[p]
       IN /\ ~shouldSwitch => refusals[p] < MaxRefusals
          /\ isBuffered' = [isBuffered EXCEPT ![p] = mode]
          /\ Relay(p, Out(MSG_BUF, ownCounterId[p], ModeByte(mode)), {}, recvDict[p])
          /\ NegLocals(p, Step2Next(mode, peerCurrentMode[p]), "false", attempts[p],
                       ourNegValue[p], mode, peerCurrentMode[p],
                       IF shouldSwitch THEN refusals[p] ELSE refusals[p] + 1)
  /\ ownCounterId' = [ownCounterId EXCEPT ![p] = (@ + 1) % 256]
  /\ rcv' = NoRcv
  /\ UNCHANGED <<env, pc, negotiationPrompt, peerCounterId, lastPeerBufCounter,
                 oddLeft, tradeVars, nonLink, staleMoves>>

\* Step 2, the peer decides: forget the cached BUF and start polling.
negClearBuf(p) ==
  /\ npc[p] = "step2"
  /\ weAdapt[p] = "false"
  /\ Relay(p, NoOut, {MSG_BUF}, [recvDict[p] EXCEPT ![MSG_BUF] = NoMsg])
  /\ npc' = [npc EXCEPT ![p] = "pollBuf"]
  /\ rcv' = NoRcv
  /\ UNCHANGED <<env, pc, negotiationPrompt, isBuffered, ownCounterId,
                 peerCounterId, lastPeerBufCounter, negVars, oddLeft,
                 tradeVars, nonLink, staleMoves>>

\* One poll: a BUF with a counter other than the last one seen is the peer's
\* decision; one with the same counter is the old BUF served again.
negPoll(p) ==
  /\ npc[p] = "pollBuf"
  /\ recvDict[p][MSG_BUF] # NoMsg
  /\ LET updatedBuf == recvDict[p][MSG_BUF]
         gotResponse == updatedBuf.ctr # lastPeerBufCounter[p]
         peerCur == IF gotResponse THEN updatedBuf.val = BUFFERED
                    ELSE peerCurrentMode[p]
     IN /\ lastPeerBufCounter' = [lastPeerBufCounter EXCEPT ![p] =
                                    IF gotResponse THEN updatedBuf.ctr ELSE @]
        /\ NegLocals(p, IF gotResponse THEN Step2Next(currentMode[p], peerCur)
                        ELSE "pollBuf",
                     IF gotResponse THEN "true" ELSE weAdapt[p], attempts[p],
                     ourNegValue[p], currentMode[p], peerCur, refusals[p])
  /\ rcv' = NoRcv
  /\ Relay(p, NoOut, {MSG_BUF}, recvDict[p])
  /\ UNCHANGED <<env, pc, negotiationPrompt, isBuffered, ownCounterId,
                 peerCounterId, oddLeft, tradeVars, nonLink, staleMoves>>

\* Time is not modelled.  Thirty seconds pass without a new BUF only while
\* the peer is held up: its user has the prompt open, or it is itself polling
\* for our decision.
PeerHeldUp(p) ==
  \/ npc[Other(p)] = "step2" /\ weAdapt[Other(p)] = "true" /\ negotiationPrompt[Other(p)]
  \/ npc[Other(p)] = "pollBuf"

\* The 30 s of polling ran out with no new BUF seen: take the peer's mode.
negTimeout(p) ==
  /\ npc[p] = "pollBuf"
  /\ recvDict[p][MSG_BUF] # NoMsg
  /\ recvDict[p][MSG_BUF].ctr = lastPeerBufCounter[p]
  /\ PeerHeldUp(p)
  /\ isBuffered' = [isBuffered EXCEPT ![p] = peerCurrentMode[p]]
  /\ NegLocals(p, "done", "true", attempts[p], ourNegValue[p], peerCurrentMode[p],
               peerCurrentMode[p], refusals[p])
  /\ rcv' = NoRcv
  /\ Relay(p, NoOut, {}, recvDict[p])
  /\ UNCHANGED <<env, pc, negotiationPrompt, ownCounterId, peerCounterId,
                 lastPeerBufCounter, oddLeft, tradeVars, nonLink, staleMoves>>

\* ---------------------------------------------------- trade sequences
Inc(counter) == IF counter = Null THEN Null ELSE (counter + 1) % 256

\* A faulty variant of the trade loop that does not wait for the negotiation.
negotiationDone_NoWait(p) == TRUE

\* await negotiationPromise: the background negotiation has returned.
negotiationDone(p) == npc[p] = "done"

\* A faulty variant of the cache test that never finds cached peer data.
hasCachedPeerData_Never(p) == FALSE

\* The cache test of the trade loop: the peer's party section is held.
hasCachedPeerData(p) == bufferedOtherData[p]

\* startTrade's loop: sit at the table (or leave the room), wait once for the
\* negotiation, then take the full or the cached sequence.
sitToTable(p) ==
  /\ pc[p] = "sit"
  /\ negotiationDone(p)
  /\ \/ /\ cycles[p] < MaxCycles
        /\ cycles' = [cycles EXCEPT ![p] = @ + 1]
        /\ pc' = [pc EXCEPT ![p] =
                    IF (ownBlankTrade[p] /\ otherBlankTrade[p]) /\ ~hasCachedPeerData(p)
                    THEN "startSeq" ELSE "subSeq"]
        /\ UNCHANGED vec2FloodInterval
     \/ /\ pc' = [pc EXCEPT ![p] = "ended"]
        /\ vec2FloodInterval' = stopVEC2Flood(p)
        /\ UNCHANGED cycles
  /\ rcv' = NoRcv
  /\ snd' = NoSnd
  /\ UNCHANGED <<env, npc, negotiationPrompt, isBuffered, ownCounterId, peerCounterId,
                 lastPeerBufCounter, recvDict, sendDict, inFlight, negVars, oddLeft,
                 lastSent, ownBlankTrade, otherBlankTrade, bufferedOtherData,
                 cancelCurrentTrade, completedTradeCount, choices, ourChoice, ourAccept,
                 weNeedMVS2FromPeer, gen3Vars, secVars, partyVars, confirmVars,
                 readVars, moreVars, sendDictVEC, fllVars, staleMoves>>


\* The full sequence facing the environment, its section exchanges and its
\* FLL exchange left out: it ends with the peer's sections cached, both flags
\* set and, in Sync mode, peerCounterId forgotten.  In Buffered mode it is a
\* ghost trade fed the default party, to be cancelled in the menu, unless the
\* peer's FLL was there early.
tradeStartingSequence(p) ==
  /\ pc[p] = "startSeq"
  /\ bufferedOtherData' = [bufferedOtherData EXCEPT ![p] = TRUE]
  /\ \E early \in (IF isBuffered[p] THEN BOOLEAN ELSE {FALSE}) :
       /\ isGhostTrade' = [isGhostTrade EXCEPT ![p] = isBuffered[p] /\ ~early]
       /\ tradeData' = [tradeData EXCEPT ![p] = IF early THEN "peer" ELSE "default"]
       /\ cancelCurrentTrade' =
            [cancelCurrentTrade EXCEPT ![p] = (isBuffered[p] /\ ~early) \/ @]
  /\ ownBlankTrade' = [ownBlankTrade EXCEPT ![p] = TRUE]
  /\ otherBlankTrade' = [otherBlankTrade EXCEPT ![p] = TRUE]
  /\ peerCounterId' = [peerCounterId EXCEPT ![p] = IF ~isBuffered[p] THEN Null ELSE @]
  /\ staleMoves' = [staleMoves EXCEPT ![p] = FALSE]
  /\ sendDictVEC' = [sendDictVEC EXCEPT ![p] = TRUE]
  /\ pc' = [pc EXCEPT ![p] = "menu"]
  /\ rcv' = NoRcv
  /\ snd' = NoSnd
  /\ UNCHANGED <<env, npc, negotiationPrompt, isBuffered, ownCounterId,
                 lastPeerBufCounter, recvDict, sendDict, inFlight, negVars, oddLeft,
                 lastSent, completedTradeCount, cycles, choices, ourChoice, ourAccept,
                 weNeedMVS2FromPeer, gen3Vars, secVars, partyVars, confirmVars,
                 readVars, moreVars, vec2FloodInterval, sendDictFLL, recvDictFLL, inFlightFLL,
                 getsFLL, fllSends>>

\* The full sequence of a Buffered link trade between two mediators, step by
\* step.  First step: no cached peer data, so this pass is a ghost trade for
\* now, and the peer's FLL is asked for in case it was sent already.
getEarlyFLL(p) ==
  /\ pc[p] = "startSeq"
  /\ ~env /\ isBuffered[p] /\ ~bufferedOtherData[p]
  /\ isGhostTrade' = [isGhostTrade EXCEPT ![p] = TRUE]
  /\ getsFLL' = [getsFLL EXCEPT ![p] = TRUE]
  /\ sendDictVEC' = [sendDictVEC EXCEPT ![p] = TRUE]
  /\ pc' = [pc EXCEPT ![p] = "earlyFLL"]
  /\ rcv' = NoRcv
  /\ snd' = NoSnd
  /\ UNCHANGED <<env, npc, negotiationPrompt, isBuffered, ownCounterId, peerCounterId,
                 lastPeerBufCounter, recvDict, sendDict, inFlight, negVars, oddLeft,
                 lastSent, tradeVars, gen3Vars, secVars, partyVars, confirmVars,
                 readVars, moreVars, vec2FloodInterval, staleMoves, tradeData,
                 sendDictFLL, recvDictFLL, inFlightFLL, fllSends>>

\* After the 500 ms sleep: a peer FLL in the inbox is unpacked, cached and
\* fed to the cartridge, and the pass is no ghost trade; it goes on to the
\* menu with both flags set.  Without one the cartridge is fed the default
\* party and its own sections are collected.
readEarlyFLL(p) ==
  /\ pc[p] = "earlyFLL"
  /\ LET earlyPeerData == recvDictFLL[p]
     IN /\ bufferedOtherData' = [bufferedOtherData EXCEPT ![p] = earlyPeerData]
        /\ tradeData' = [tradeData EXCEPT ![p] =
                           IF earlyPeerData THEN "peer" ELSE "default"]
        /\ isGhostTrade' = [isGhostTrade EXCEPT ![p] = ~earlyPeerData]
        /\ pc' = [pc EXCEPT ![p] = IF earlyPeerData THEN "menu" ELSE "collected"]
  /\ ownBlankTrade' = [ownBlankTrade EXCEPT ![p] = TRUE]
  /\ otherBlankTrade' = [otherBlankTrade EXCEPT ![p] = TRUE]
  /\ rcv' = NoRcv
  /\ snd' = NoSnd
  /\ UNCHANGED <<env, npc, negotiationPrompt, isBuffered, ownCounterId, peerCounterId,
                 lastPeerBufCounter, recvDict, sendDict, inFlight, negVars, oddLeft,
                 lastSent, cancelCurrentTrade, completedTradeCount, cycles, choices,
                 ourChoice, ourAccept, weNeedMVS2FromPeer, gen3Vars, secVars,
                 partyVars, restVars, sendDictFLL, recvDictFLL, inFlightFLL, getsFLL, fllSends,
                 staleMoves>>

\* A ghost trade packs the collected sections into one FLL and sends it;
\* getBigTradingData then asks for the peer's.
sendBigTradingData(p) ==
  /\ pc[p] = "collected"
  /\ isBuffered[p] /\ isGhostTrade[p]
  /\ sendDictFLL' = [sendDictFLL EXCEPT ![p] = TRUE]
  /\ fllSends' = [fllSends EXCEPT ![p] = @ + 1]
  /\ inFlightFLL' = [inFlightFLL EXCEPT ![Other(p)] = TRUE]
  /\ getsFLL' = [getsFLL EXCEPT ![p] = TRUE]
  /\ pc' = [pc EXCEPT ![p] = "getFLL"]
  /\ rcv' = NoRcv
  /\ snd' = NoSnd
  /\ UNCHANGED <<env, npc, negotiationPrompt, isBuffered, ownCounterId, peerCounterId,
                 lastPeerBufCounter, recvDict, sendDict, inFlight, negVars, oddLeft,
                 lastSent, tradeVars, gen3Vars, secVars, partyVars, restVars, staleMoves, tradeData,
                 isGhostTrade, recvDictFLL>>

\* waitForMessage("FLL2") resolves once the peer's FLL is in the inbox (it
\* has no timeout): the sections are cached, the ghost trade is marked for
\* cancelling, and the sequence goes on to the menu with both flags set.
getBigTradingData(p) ==
  /\ pc[p] = "getFLL"
  /\ recvDictFLL[p]
  /\ bufferedOtherData' = [bufferedOtherData EXCEPT ![p] = TRUE]
  /\ cancelCurrentTrade' = [cancelCurrentTrade EXCEPT ![p] = TRUE]
  /\ ownBlankTrade' = [ownBlankTrade EXCEPT ![p] = TRUE]
  /\ otherBlankTrade' = [otherBlankTrade EXCEPT ![p] = TRUE]
  /\ pc' = [pc EXCEPT ![p] = "menu"]
  /\ rcv' = NoRcv
  /\ snd' = NoSnd
  /\ UNCHANGED <<env, npc, negotiationPrompt, isBuffered, ownCounterId, peerCounterId,
                 lastPeerBufCounter, recvDict, sendDict, inFlight, negVars, oddLeft,
                 lastSent, completedTradeCount, cycles, choices, ourChoice, ourAccept,
                 weNeedMVS2FromPeer, gen3Vars, secVars, partyVars, restVars, fllVars, staleMoves>>

\* WebSocketClient.processReceivedData for the FLL tag: the other side
\* answers a GET out of its sendDict if it has sent its FLL.
processReceivedGetFLL(p) ==
  /\ getsFLL[p]
  /\ getsFLL' = [getsFLL EXCEPT ![p] = FALSE]
  /\ inFlightFLL' = [inFlightFLL EXCEPT ![p] = @ \/ sendDictFLL[Other(p)]]
  /\ rcv' = NoRcv
  /\ snd' = NoSnd
  /\ UNCHANGED <<env, pc, npc, negotiationPrompt, isBuffered, ownCounterId, peerCounterId,
                 lastPeerBufCounter, recvDict, sendDict, inFlight, negVars, oddLeft,
                 lastSent, tradeVars, gen3Vars, secVars, partyVars, restVars, staleMoves, tradeData,
                 isGhostTrade, sendDictFLL, recvDictFLL, fllSends>>

\* ... and an FLL frame lands in recvDict.
processReceivedFLL(p) ==
  /\ inFlightFLL[p]
  /\ inFlightFLL' = [inFlightFLL EXCEPT ![p] = FALSE]
  /\ recvDictFLL' = [recvDictFLL EXCEPT ![p] = TRUE]
  /\ rcv' = NoRcv
  /\ snd' = NoSnd
  /\ UNCHANGED <<env, pc, npc, negotiationPrompt, isBuffered, ownCounterId, peerCounterId,
                 lastPeerBufCounter, recvDict, sendDict, inFlight, negVars, oddLeft,
                 lastSent, tradeVars, gen3Vars, secVars, partyVars, restVars, staleMoves, tradeData,
                 isGhostTrade, sendDictFLL, getsFLL, fllSends>>

\* A faulty variant that takes no sequence for a re-entry with cached data.
isReEntryWithCachedData_Never(p) == FALSE

\* Both flags set: a re-entry after a cancelled menu, nothing to exchange.
isReEntryWithCachedData(p) == ownBlankTrade[p] /\ otherBlankTrade[p]

\* The cached sequence up to its MVS decision: clear the menu tags, then
\* expect the peer's MVS, or count the MVS it sends without reading it.
subsequentTradeSequence(p) ==
  /\ pc[p] = "subSeq"
  /\ LET expectMVS == ~isReEntryWithCachedData(p) /\ otherBlankTrade[p]
         cleared == [t \in Tags |->
                       IF t \in {MSG_CHC, MSG_ACP, MSG_ASK, MSG_SUC, MSG_MVS}
                       THEN NoMsg ELSE recvDict[p][t]]
     IN /\ Relay(p, NoOut, IF expectMVS THEN {MSG_MVS} ELSE {}, cleared)
        /\ peerCounterId' = [peerCounterId EXCEPT ![p] =
                               IF ~isReEntryWithCachedData(p) /\ ~otherBlankTrade[p]
                               THEN Inc(@) ELSE @]
        /\ pc' = [pc EXCEPT ![p] = IF expectMVS THEN "recvMVS" ELSE "cached"]
  /\ rcv' = NoRcv
  /\ UNCHANGED <<env, npc, negotiationPrompt, isBuffered, ownCounterId,
                 lastPeerBufCounter, negVars, oddLeft, tradeVars, nonLink, staleMoves>>

\* receiveMVS2 with an MVS in the inbox: the first one sets the expected
\* counter, one at most 2 ahead is taken, any other is dropped and asked again.
receiveMVS2(p) ==
  /\ pc[p] = "recvMVS"
  /\ recvDict[p][MSG_MVS] # NoMsg
  /\ LET counter == recvDict[p][MSG_MVS].ctr
         take == \/ peerCounterId[p] = Null
                 \/ counter = peerCounterId[p]
                 \/ Diff(counter, peerCounterId[p]) <= 2
     IN /\ peerCounterId' = [peerCounterId EXCEPT ![p] =
                               IF take THEN AfterCounter(counter) ELSE @]
        /\ pc' = [pc EXCEPT ![p] = IF take THEN "cached" ELSE "recvMVS"]
        /\ staleMoves' = [staleMoves EXCEPT ![p] = IF take THEN FALSE ELSE @]
        /\ rcv' = [peer |-> p, tag |-> MSG_MVS, ctr |-> counter,
                   expected |-> peerCounterId[p], accepted |-> take]
        /\ Relay(p, NoOut, IF take THEN {} ELSE {MSG_MVS},
                 [recvDict[p] EXCEPT ![MSG_MVS] = NoMsg])
  /\ UNCHANGED <<env, npc, negotiationPrompt, isBuffered, ownCounterId,
                 lastPeerBufCounter, negVars, oddLeft, tradeVars, nonLink>>

\* receiveMVS2 ran out of retries: count the MVS that never came.
receiveMVS2Timeout(p) ==
  /\ pc[p] = "recvMVS"
  /\ recvDict[p][MSG_MVS] = NoMsg
  /\ peerCounterId' = [peerCounterId EXCEPT ![p] = Inc(@)]
  /\ pc' = [pc EXCEPT ![p] = "cached"]
  /\ rcv' = NoRcv
  /\ Relay(p, NoOut, {}, recvDict[p])
  /\ UNCHANGED <<env, npc, negotiationPrompt, isBuffered, ownCounterId,
                 lastPeerBufCounter, negVars, oddLeft, tradeVars, nonLink, staleMoves>>

\* A faulty variant of step 2 that sends no MVS.
sendsMVS2_Never(p) == FALSE

\* Step 2 of the subsequent sequence: sendMVS2() is called after the section
\* exchange in every case, whatever the blank-trade flags say.
sendsMVS2(p) == TRUE

\* The rest of the cached sequence: replay the cached sections to the
\* cartridge, send our MVS, set both flags and enter the menu.
sendMVS2(p) ==
  /\ pc[p] = "cached"
  /\ tradeData' = [tradeData EXCEPT ![p] = "peer"]
  /\ Relay(p, IF sendsMVS2(p) THEN Out(MSG_MVS, ownCounterId[p], 0) ELSE NoOut,
           {}, recvDict[p])
  /\ ownCounterId' = [ownCounterId EXCEPT ![p] =
                        IF sendsMVS2(p) THEN (@ + 1) % 256 ELSE @]
  /\ ownBlankTrade' = [ownBlankTrade EXCEPT ![p] = TRUE]
  /\ otherBlankTrade' = [otherBlankTrade EXCEPT ![p] = TRUE]
  /\ pc' = [pc EXCEPT ![p] = "menu"]
  /\ rcv' = NoRcv
  /\ UNCHANGED <<env, npc, negotiationPrompt, isBuffered, peerCounterId,
                 lastPeerBufCounter, negVars, oddLeft, bufferedOtherData,
                 cancelCurrentTrade, completedTradeCount, cycles, choices, ourChoice,
                 ourAccept, weNeedMVS2FromPeer, gen3Vars, secVars, partyVars, restVars, fllRest,
                 staleMoves>>

\* ------------------------------------------------- linkTradeMenuLoop
\* A faulty variant of the window check that finds no frame stale.
IsStale_Never(counter, expected) == FALSE

\* The window check of getChosenMon, getAccepted and getSuccess: a counter
\* more than 128 behind the expected one (mod 256) is stale.
IsStale(counter, expected) ==
  expected # Null /\ Diff(counter, expected) > 128

\* Top of the menu loop: a ghost trade is cancelled without a message;
\* otherwise the cartridge's choice (a slot, or STOP_TRADE) goes out as CHC.
linkTradeMenuLoop(p) ==
  /\ pc[p] = "menu"
  /\ IF cancelCurrentTrade[p]
     THEN /\ cancelCurrentTrade' = [cancelCurrentTrade EXCEPT ![p] = FALSE]
          /\ pc' = [pc EXCEPT ![p] = "sit"]
          /\ Relay(p, NoOut, {}, recvDict[p])
          /\ UNCHANGED <<ownCounterId, ourChoice, choices>>
     ELSE /\ choices[p] < MaxChoices
          /\ choices' = [choices EXCEPT ![p] = @ + 1]
          /\ \E choice \in {FIRST_TRADE_INDEX, STOP_TRADE} :
               /\ ourChoice' = [ourChoice EXCEPT ![p] = choice]
               /\ Relay(p, Out(MSG_CHC, ownCounterId[p], choice), {}, recvDict[p])
          /\ ownCounterId' = [ownCounterId EXCEPT ![p] = (@ + 1) % 256]
          /\ pc' = [pc EXCEPT ![p] = "getCHC"]
          /\ UNCHANGED cancelCurrentTrade
  /\ rcv' = NoRcv
  /\ UNCHANGED <<env, npc, negotiationPrompt, isBuffered, peerCounterId,
                 lastPeerBufCounter, negVars, oddLeft, ownBlankTrade,
                 otherBlankTrade, bufferedOtherData, completedTradeCount, cycles,
                 ourAccept, weNeedMVS2FromPeer, nonLink, staleMoves>>

\* Loop top of getChosenMon / getAccepted / getSuccess: issue the GET, then
\* keep the cartridge clock alive until the check.
sendGetData(p, tag, here, there) ==
  /\ pc[p] = here
  /\ Relay(p, NoOut, {tag}, recvDict[p])
  /\ pc' = [pc EXCEPT ![p] = there]
  /\ rcv' = NoRcv
  /\ UNCHANGED <<env, npc, negotiationPrompt, isBuffered, ownCounterId, peerCounterId,
                 lastPeerBufCounter, negVars, oddLeft, tradeVars, nonLink, staleMoves>>

\* The check of one loop pass, up to the next wait.  Nothing in the inbox or
\* a stale frame (dropped) lead back to the loop top; any other frame is
\* taken, peerCounterId moves past its counter, and the frame is removed.
\* after(value) is the position the caller continues at, out(value) what it
\* sends before its next wait, gets the GETs it issues.  The menu loop's
\* locals are gone when it is left.
getWithWindow(p, tag, here, top, after(_), out(_), gets(_)) ==
  /\ pc[p] = here
  /\ LET data == recvDict[p][tag]
         removed == [recvDict[p] EXCEPT ![tag] = NoMsg]
     IN IF data = NoMsg
        THEN /\ pc' = [pc EXCEPT ![p] = top]
             /\ rcv' = NoRcv
             /\ Relay(p, NoOut, {}, recvDict[p])
             /\ UNCHANGED <<peerCounterId, ownCounterId>>
        ELSE IF IsStale(data.ctr, peerCounterId[p])
        THEN /\ pc' = [pc EXCEPT ![p] = top]
             /\ rcv' = [peer |-> p, tag |-> tag, ctr |-> data.ctr,
                        expected |-> peerCounterId[p], accepted |-> FALSE]
             /\ Relay(p, NoOut, {}, removed)
             /\ UNCHANGED <<peerCounterId, ownCounterId>>
        ELSE /\ pc' = [pc EXCEPT ![p] = after(data.val)]
             /\ rcv' = [peer |-> p, tag |-> tag, ctr |-> data.ctr,
                        expected |-> peerCounterId[p], accepted |-> TRUE]
             /\ peerCounterId' = [peerCounterId EXCEPT ![p] = AfterCounter(data.ctr)]
             /\ Relay(p, out(data.val), gets(data.val), removed)
             /\ ownCounterId' = [ownCounterId EXCEPT ![p] =
                                   IF out(data.val).tag = "none" THEN @
                                   ELSE (@ + 1) % 256]
  /\ ourChoice' = [ourChoice EXCEPT ![p] = IF pc'[p] = "sit" THEN 0 ELSE @]
  /\ ourAccept' = [ourAccept EXCEPT ![p] = IF pc'[p] \in {"sit", "menu"} THEN 0 ELSE @]
  /\ UNCHANGED <<env, npc, negotiationPrompt, isBuffered, lastPeerBufCounter,
                 negVars, oddLeft, ownBlankTrade, otherBlankTrade,
                 bufferedOtherData, cancelCurrentTrade, cycles, choices, nonLink>>

getChosenMonGet(p) == sendGetData(p, MSG_CHC, "getCHC", "chkCHC")

\* getChosenMon's check and what the menu does with the peer's choice: end
\* the trade if either side chose STOP_TRADE, else go on to accept/decline.
getChosenMon(p) ==
  /\ LET after(peerChoice) ==
           IF ourChoice[p] = STOP_TRADE \/ peerChoice = STOP_TRADE
           THEN "sit" ELSE "accept"
         out(peerChoice) == NoOut
         gets(peerChoice) == {}
     IN getWithWindow(p, MSG_CHC, "chkCHC", "getCHC", after, out, gets)
  /\ UNCHANGED <<completedTradeCount, weNeedMVS2FromPeer, staleMoves>>

\* waitForAcceptDecline, then ACP with our decision.
waitForAcceptDecline(p) ==
  /\ pc[p] = "accept"
  /\ \E decision \in {ACCEPT_TRADE, DECLINE_TRADE} :
       /\ ourAccept' = [ourAccept EXCEPT ![p] = decision]
       /\ Relay(p, Out(MSG_ACP, ownCounterId[p], decision), {}, recvDict[p])
  /\ ownCounterId' = [ownCounterId EXCEPT ![p] = (@ + 1) % 256]
  /\ pc' = [pc EXCEPT ![p] = "getACP"]
  /\ rcv' = NoRcv
  /\ UNCHANGED <<env, npc, negotiationPrompt, isBuffered, peerCounterId,
                 lastPeerBufCounter, negVars, oddLeft, ownBlankTrade,
                 otherBlankTrade, bufferedOtherData, cancelCurrentTrade,
                 completedTradeCount, cycles, choices, ourChoice, weNeedMVS2FromPeer, nonLink, staleMoves>>

getAcceptedGet(p) == sendGetData(p, MSG_ACP, "getACP", "chkACP")

\* getAccepted's check.  If both sides accepted, ASK goes out (whether the
\* mon we give is a special one is the cartridge's data) and the peer's ASK
\* is asked for; a decline leads back to the top of the menu loop.
getAccepted(p) ==
  /\ \E special \in BOOLEAN :
       LET both(peerAccept) == ourAccept[p] = ACCEPT_TRADE /\ peerAccept = ACCEPT_TRADE
           after(peerAccept) == IF both(peerAccept) THEN "waitASK" ELSE "menu"
           out(peerAccept) ==
             IF both(peerAccept)
             THEN Out(MSG_ASK, ownCounterId[p],
                      IF special THEN NEED_DATA_VALUE ELSE NOT_NEED_DATA_VALUE)
             ELSE NoOut
           gets(peerAccept) == IF both(peerAccept) THEN {MSG_ASK} ELSE {}
       IN /\ getWithWindow(p, MSG_ACP, "chkACP", "getACP", after, out, gets)
          /\ weNeedMVS2FromPeer' = [weNeedMVS2FromPeer EXCEPT ![p] =
                                      pc'[p] = "waitASK" /\ special]
  /\ UNCHANGED <<completedTradeCount, staleMoves>>

\* waitForMessage(ASK) hands over whatever ASK the inbox holds.  Its value
\* sets ownBlankTrade, its counter sets peerCounterId; otherBlankTrade is what
\* our own ASK said.  Then the cartridge's success byte goes out as SUC.
waitForMessageASK(p) ==
  /\ pc[p] = "waitASK"
  /\ recvDict[p][MSG_ASK] # NoMsg
  /\ LET peerAsk2 == recvDict[p][MSG_ASK]
     IN /\ ownBlankTrade' = [ownBlankTrade EXCEPT ![p] = (peerAsk2.val = NEED_DATA_VALUE)]
        /\ peerCounterId' = [peerCounterId EXCEPT ![p] = AfterCounter(peerAsk2.ctr)]
        /\ rcv' = [peer |-> p, tag |-> MSG_ASK, ctr |-> peerAsk2.ctr,
                   expected |-> peerCounterId[p], accepted |-> TRUE]
  /\ otherBlankTrade' = [otherBlankTrade EXCEPT ![p] = weNeedMVS2FromPeer[p]]
  /\ weNeedMVS2FromPeer' = [weNeedMVS2FromPeer EXCEPT ![p] = FALSE]
  /\ Relay(p, Out(MSG_SUC, ownCounterId[p], SUCCESS_VALUE), {}, recvDict[p])
  /\ ownCounterId' = [ownCounterId EXCEPT ![p] = (@ + 1) % 256]
  /\ pc' = [pc EXCEPT ![p] = "getSUC"]
  /\ UNCHANGED <<env, npc, negotiationPrompt, isBuffered, lastPeerBufCounter,
                 negVars, oddLeft, bufferedOtherData, cancelCurrentTrade,
                 completedTradeCount, cycles, choices, ourChoice, ourAccept, nonLink, staleMoves>>

getSuccessGet(p) == sendGetData(p, MSG_SUC, "getSUC", "chkSUC")

\* getSuccess's check; the trade is then counted and the menu loop left.
getSuccess(p) ==
  /\ LET after(peerSuccess) == "sit"
         out(peerSuccess) == NoOut
         gets(peerSuccess) == {}
     IN getWithWindow(p, MSG_SUC, "chkSUC", "getSUC", after, out, gets)
  /\ UNCHANGED weNeedMVS2FromPeer
  /\ completedTradeCount' = [completedTradeCount EXCEPT ![p] =
                               IF pc'[p] = "sit" THEN @ + 1 ELSE @]
  /\ staleMoves' = [staleMoves EXCEPT ![p] =
                      IF pc'[p] = "sit" THEN otherBlankTrade[p] ELSE @]

\* ------------------------------------------- Gen 3 pool trade (RSESPTrading)
\* resetTrade: forget the parties, the counters if asked to, and every
\* counter-tagged frame in the inbox.
resetTrade(resetCounters, ownId) ==
  /\ own_id' = IF resetCounters THEN Null ELSE ownId
  /\ other_id' = IF resetCounters THEN Null ELSE other_id
  /\ recvDict3' = [t \in Tags3 |-> NoMsg]

\* sendWithCounter: the first counter is drawn, every later one is the
\* previous one plus one; the frame carries the counter.
NextOwnIds == IF own_id = Null THEN InitCounters ELSE {(own_id + 1) % 256}

sendWithCounter(tag, id) ==
  /\ own_id' = id
  /\ sendDict3' = [sendDict3 EXCEPT ![tag] = [ctr |-> id, val |-> 0]]
  /\ snd' = [peer |-> Me, tag |-> tag, ctr |-> id, prev |-> lastSent3]
  /\ lastSent3' = id

\* getWithCounter, one call: a frame in the inbox is removed and returned only
\* if it is the first one or carries exactly the expected counter; with an
\* empty inbox a GET goes out.  at(value) is where the caller continues with
\* the returned payload.
getWithCounter(tag, at(_)) ==
  LET data == recvDict3[tag]
      take == other_id = Null \/ other_id = data.ctr
  IN IF data # NoMsg
     THEN /\ recvDict3' = [recvDict3 EXCEPT ![tag] = NoMsg]
          /\ other_id' = IF take THEN AfterCounter(data.ctr) ELSE other_id
          /\ rcv' = [peer |-> Me, tag |-> tag, ctr |-> data.ctr,
                     expected |-> other_id, accepted |-> take]
          /\ pc3' = IF take THEN at(data.val) ELSE pc3
          /\ UNCHANGED inFlight3
     ELSE /\ inFlight3' = inFlight3 \cup {tag}
          /\ rcv' = NoRcv
          /\ UNCHANGED <<recvDict3, other_id, pc3>>

\* poolTradeLoop's entry: resetTrade().
poolTradeLoop ==
  /\ pc3 = "poolTradeLoop"
  /\ resetTrade(TRUE, own_id)
  /\ pc3' = "getPool"
  /\ rcv' = NoRcv
  /\ snd' = NoSnd
  /\ UNCHANGED <<linkRest, oddLeft, round, declined, sendDict3, inFlight3, lastSent3,
                 cycles3>>

\* Top of the pool loop: receive the pool mon (P3SI), then run the starting
\* sequence and enter doTrade.
getPoolTradingData ==
  /\ pc3 = "getPool"
  /\ LET at(mon) == "choice" IN getWithCounter(pool_transfer, at)
  /\ snd' = NoSnd
  /\ UNCHANGED <<linkRest, oddLeft, round, declined, own_id, sendDict3, lastSent3,
                 cycles3>>

\* doTrade towards the server, the player's choice.  A stop closes the trade:
\* doTrade returns true and the pool loop resets the counters and reconnects.
\* Any other choice is sent as P3SO and answered locally by the pool mon.
doTradeChoice ==
  /\ pc3 = "choice"
  /\ cycles3 < MaxCycles3
  /\ \/ /\ resetTrade(TRUE, own_id)
        /\ sendDict3' = [t \in Tags3 |-> NoMsg]
        /\ inFlight3' = {}
        /\ lastSent3' = lastSent3
        /\ pc3' = "getPool"
        /\ snd' = NoSnd
        /\ UNCHANGED round
     \/ /\ \E id \in NextOwnIds : sendWithCounter(pool_transfer_out, id)
        /\ round' = 1
        /\ pc3' = "accept"
        /\ UNCHANGED <<other_id, recvDict3, inFlight3>>
  /\ cycles3' = cycles3 + 1
  /\ declined' = FALSE
  /\ rcv' = NoRcv
  /\ UNCHANGED <<linkRest, oddLeft>>

\* One of the two accept rounds: a decline is answered locally, an accept is
\* sent and the server's answer awaited.
doTradeAccept ==
  /\ pc3 = "accept"
  /\ \/ /\ declined' = TRUE
        /\ pc3' = IF round = 1 THEN "accept" ELSE "choice"
        /\ round' = IF round = 1 THEN 2 ELSE 0
        /\ snd' = NoSnd
        /\ UNCHANGED <<own_id, sendDict3, lastSent3>>
     \/ /\ \E id \in NextOwnIds : sendWithCounter(accept_transfer[round], id)
        /\ declined' = FALSE
        /\ pc3' = "getAccepted"
        /\ UNCHANGED round
  /\ rcv' = NoRcv
  /\ UNCHANGED <<linkRest, oddLeft, other_id, recvDict3, inFlight3, cycles3>>

\* The server's answer to an accept; after the second round the trade goes
\* on to the success rounds unless it was declined.
getAccepted3 ==
  /\ pc3 = "getAccepted"
  /\ LET at(received_accepted) ==
           IF round = 1 THEN "accept"
           ELSE IF received_accepted = decline_trade[2] THEN "choice"
           ELSE "success"
     IN getWithCounter(accept_transfer[round], at)
  /\ round' = IF pc3' = "accept" THEN 2
              ELSE IF pc3' = "success" THEN 1
              ELSE IF pc3' = "choice" THEN 0
              ELSE round
  /\ snd' = NoSnd
  /\ UNCHANGED <<linkRest, oddLeft, declined, own_id, sendDict3, lastSent3, cycles3>>

\* One of the seven success rounds: send ours.
doTradeSuccess ==
  /\ pc3 = "success"
  /\ \E id \in NextOwnIds : sendWithCounter(success_transfer[round], id)
  /\ pc3' = "getSuccess"
  /\ rcv' = NoRcv
  /\ UNCHANGED <<linkRest, oddLeft, round, declined, other_id, recvDict3, inFlight3,
                 cycles3>>

\* ... and receive the server's.  After the seventh the trade is complete:
\* resetTrade(false) keeps the counters and the pool loop starts over.
getSuccess3 ==
  /\ pc3 = "getSuccess"
  /\ LET data == recvDict3[success_transfer[round]]
         take == data # NoMsg /\ (other_id = Null \/ other_id = data.ctr)
     IN IF take /\ round = 7
        THEN /\ resetTrade(FALSE, own_id)
             /\ other_id' = AfterCounter(data.ctr)
             /\ rcv' = [peer |-> Me, tag |-> success_transfer[round], ctr |-> data.ctr,
                        expected |-> other_id, accepted |-> TRUE]
             /\ pc3' = "getPool"
             /\ round' = 0
             /\ UNCHANGED inFlight3
        ELSE /\ LET at(received_success) == "success"
                IN getWithCounter(success_transfer[round], at)
             /\ round' = IF pc3' = "success" THEN round + 1 ELSE round
             /\ UNCHANGED own_id
  /\ snd' = NoSnd
  /\ UNCHANGED <<linkRest, oddLeft, declined, sendDict3, lastSent3, cycles3>>

\* The pool server: any frame may answer a pending GET.
serverSends(tag) ==
  /\ tag \in inFlight3
  /\ \E d \in (IF other_id = Null THEN {0} ELSE Deltas3),
        base \in (IF other_id = Null THEN InitCounters ELSE {other_id}),
        v \in (IF tag = accept_transfer[2] THEN {accept_trade[2], decline_trade[2]}
               ELSE {0}) :
       /\ d # 0 => oddLeft > 0
       /\ oddLeft' = IF d # 0 THEN oddLeft - 1 ELSE oddLeft
       /\ recvDict3' = [recvDict3 EXCEPT ![tag] = [ctr |-> (base + d) % 256, val |-> v]]
  /\ inFlight3' = inFlight3 \ {tag}
  /\ rcv' = NoRcv
  /\ snd' = NoSnd
  /\ UNCHANGED <<linkRest, pc3, round, declined, own_id, other_id, sendDict3,
                 lastSent3, cycles3>>

\* ------------------------------------------------ section exchange
\* The bytes of the two cartridges, told apart by section and position.
PeerByte(sec, pos) == 16 * sec + pos
GBByte(sec, pos) == 128 + 16 * sec + pos

\* DROP_BYTES_CHECK_START, cut down with the section length: the last
\* position of a section.
DROP_BYTES_CHECK_START == SecLen - 1

\* createSyncPacket / createDataPacket with sendTradeData: the packet our
\* slots make in the format in use.  An OLD packet carries two slots and the
\* section index of the first.
createSyncPacket(sec) == [new |-> useNewProtocol', kind |-> "marker", index |-> sec,
                          entries |-> {}]

createDataPacket(slots, new) ==
  LET used == {slot \in Slots : /\ slots[slot] # NoEntry
                                /\ new \/ slot < TOTAL_SEND_BUF_OLD_BYTES}
  IN [new |-> new, kind |-> "data", index |-> slots[0].index,
      entries |-> {[pos |-> slots[slot].pos, val |-> slots[slot].val] : slot \in used}]

\* getSwappableBytesNew: every entry below length, whatever its section.
getSwappableBytesNew(recvBuf, length, sec) ==
  {e \in recvBuf.entries : e.pos < length}

\* getSwappableBytesOld: a packet of a later section stands for completion,
\* one of this section gives its entries up to length, any other nothing.
getSwappableBytesOld(recvBuf, length, sec) ==
  IF recvBuf.entries = {} THEN {}
  ELSE IF recvBuf.index >= sec + 1 THEN {[pos |-> length, val |-> 0]}
  ELSE IF recvBuf.index = sec THEN {e \in recvBuf.entries : e.pos <= length}
  ELSE {}

\* getTradeData then getSwappableBytes: the protocol follows the size of the
\* packet in the inbox.
getSwappableBytes(recvBuf, length, sec) ==
  IF recvBuf = NoPacket THEN {}
  ELSE IF recvBuf.new THEN getSwappableBytesNew(recvBuf, length, sec)
  ELSE getSwappableBytesOld(recvBuf, length, sec)

\* A faulty variant of the test that takes a packet of any section.
SyncFound_AnySection(recvBuf, sec) == recvBuf.kind # "none"

\* synchSynchSection's test: the peer's marker for this section, or data of
\* this section already.
SyncFound(recvBuf, sec) ==
  /\ recvBuf.index = sec
  /\ \/ recvBuf.kind = "marker"
     \/ recvBuf.kind = "data" /\ recvBuf.entries # {}

\* Object.assign(recvData, newData), kept to the positions the loop reads.
Assign(data, newData) ==
  [pos \in 0 .. SecLen |->
     IF \E e \in newData : e.pos = pos
     THEN (CHOOSE e \in newData : e.pos = pos).val
     ELSE data[pos]]

secRest == <<linkVars, gen3Vars, partyVars, restVars, fllVars, staleMoves>>

\* readSection up to its data exchange: a synced section sends its marker and
\* waits for the peer's; any other is read against local data.
readSection ==
  /\ spc = "readSection"
  /\ UNCHANGED useNewProtocol
  /\ IF syncSections /\ (useNewProtocol => index > 0)
     THEN /\ outSNG' = createSyncPacket(index)
          /\ spc' = "synchSynchSection"
          /\ UNCHANGED <<buf, i>>
     ELSE /\ buf' = <<GBByte(index, 0)>>
          /\ i' = 0
          /\ spc' = "local"
          /\ UNCHANGED outSNG
  /\ wrote' = NoWrite
  /\ UNCHANGED <<secRest, index, syncSections, otherBuf, recvData, pollCount,
                 sendBufData, sendIndex, inboxSNG, result, peerNew, peerSec, peerPhase,
                 peerPos>>

\* synchSynchSection with a packet in the inbox; once the peer is found the
\* marker is sent again, the cartridge woken up, and synchExchangeSection
\* starts with the cartridge's first byte.
synchSynchSection ==
  /\ spc = "synchSynchSection"
  /\ inboxSNG # NoPacket
  /\ useNewProtocol' = inboxSNG.new
  /\ IF SyncFound(inboxSNG, index)
     THEN /\ outSNG' = createSyncPacket(index)
          /\ buf' = <<GBByte(index, 0)>>
          /\ otherBuf' = <<>>
          /\ sendBufData' = [slot \in Slots |->
                               IF slot = 0
                               THEN [pos |-> 0, val |-> GBByte(index, 0), index |-> index]
                               ELSE NoEntry]
          /\ sendIndex' = 1
          /\ recvData' = [pos \in 0 .. SecLen |-> Null]
          /\ i' = 0
          /\ pollCount' = 0
          /\ spc' = "exchange"
     ELSE /\ useNewProtocol' # useNewProtocol
          /\ UNCHANGED <<outSNG, buf, otherBuf, sendBufData, sendIndex, recvData, i,
                         pollCount, spc>>
  /\ wrote' = NoWrite
  /\ UNCHANGED <<secRest, index, syncSections, inboxSNG, result, peerNew, peerSec,
                 peerPhase, peerPos>>

\* One poll for position i: send our packet, read the inbox.
pollTradeData ==
  /\ spc = "exchange"
  /\ i < SecLen
  /\ recvData[i] = Null
  /\ pollCount < MaxPoll
  /\ useNewProtocol' = IF inboxSNG = NoPacket THEN useNewProtocol ELSE inboxSNG.new
  /\ outSNG' = createDataPacket(sendBufData, useNewProtocol)
  /\ recvData' = Assign(recvData, getSwappableBytes(inboxSNG, SecLen, index))
  /\ pollCount' = IF recvData'[i] = Null THEN pollCount + 1 ELSE pollCount
  /\ wrote' = NoWrite
  /\ UNCHANGED <<secRest, spc, index, syncSections, i, buf, otherBuf, sendBufData,
                 sendIndex, inboxSNG, result, peerNew, peerSec, peerPhase, peerPos>>

\* Position i is known.  A NO_INPUT is forgotten and polled again; any other
\* byte is written to the cartridge, whose answer is our byte i + 1: it is
\* kept as it is, and put into the next slot with a bad byte cleaned.
exchangeByte ==
  /\ spc = "exchange"
  /\ i < SecLen
  /\ recvData[i] # Null
  /\ LET peerByte == recvData[i] % 256
     IN IF peerByte = NO_INPUT
        THEN /\ recvData' = [recvData EXCEPT ![i] = Null]
             /\ wrote' = NoWrite
             /\ UNCHANGED <<buf, otherBuf, sendBufData, sendIndex, i>>
        ELSE \E nextByte \in {GBByte(index, i + 1), DROP_BYTES_CHECK_VALUE, NO_INPUT} :
               LET nextI == i + 1
                   cleanedNextByte ==
                     IF nextI >= DROP_BYTES_CHECK_START /\ nextByte = DROP_BYTES_CHECK_VALUE
                     THEN 255 ELSE nextByte
                   slotIndex == IF useNewProtocol
                                THEN sendIndex % TOTAL_SEND_BUF_NEW_BYTES
                                ELSE nextI % 2
               IN /\ otherBuf' = Append(otherBuf, peerByte)
                  /\ buf' = Append(buf, nextByte)
                  /\ sendBufData' = [sendBufData EXCEPT ![slotIndex] =
                                       [pos |-> nextI, val |-> cleanedNextByte,
                                        index |-> index]]
                  /\ sendIndex' = sendIndex + 1
                  /\ i' = nextI
                  /\ wrote' = [sec |-> index, pos |-> i, val |-> peerByte,
                               answer |-> nextByte]
                  /\ UNCHANGED recvData
  /\ pollCount' = 0
  /\ outSNG' = createDataPacket(sendBufData, useNewProtocol)
  /\ UNCHANGED <<secRest, spc, index, syncSections, useNewProtocol, inboxSNG, result,
                 peerNew, peerSec, peerPhase, peerPos>>

\* The main loop is left, all positions done or a position timed out: send
\* what we have, then put the completion marker into the slots.
mainLoopExit ==
  /\ spc = "exchange"
  /\ i = SecLen \/ (recvData[i] = Null /\ pollCount >= MaxPoll)
  /\ LET marker == [pos |-> SecLen, val |-> buf[Len(buf)], index |-> index]
     IN sendBufData' =
          IF useNewProtocol
          THEN [sendBufData EXCEPT ![sendIndex % TOTAL_SEND_BUF_NEW_BYTES] = marker]
          ELSE [sendBufData EXCEPT ![0] = marker, ![1] = marker]
  /\ outSNG' = createDataPacket(sendBufData, useNewProtocol)
  /\ spc' = "handshake"
  /\ wrote' = NoWrite
  /\ UNCHANGED <<secRest, index, syncSections, useNewProtocol, i, buf, otherBuf,
                 recvData, pollCount, sendIndex, inboxSNG, result, peerNew, peerSec,
                 peerPhase, peerPos>>

\* readSection's return and the caller's move to the next section.
Return(data) ==
  /\ result' = data
  /\ index' = IF index < LastSection THEN index + 1 ELSE index
  /\ spc' = IF index < LastSection THEN "readSection" ELSE "done"

\* The final handshake: it ends with the peer's completion marker seen, or
\* after its attempts ran out; synchExchangeSection returns buf, and
\* readSection returns that.
finalHandshake ==
  /\ spc = "handshake"
  /\ \E peerCompleted \in BOOLEAN :
       /\ peerCompleted =>
            \E e \in getSwappableBytes(inboxSNG, SecLen + 1, index) : e.pos >= SecLen
       /\ useNewProtocol' = IF inboxSNG = NoPacket THEN useNewProtocol ELSE inboxSNG.new
  /\ outSNG' = createDataPacket(sendBufData, useNewProtocol)
  /\ Return(buf)
  /\ wrote' = NoWrite
  /\ UNCHANGED <<secRest, syncSections, i, buf, otherBuf, recvData, pollCount,
                 sendBufData, sendIndex, inboxSNG, peerNew, peerSec, peerPhase, peerPos>>

\* A section read against local data (buffered, pool, or skipSync): length - 1
\* exchanges fill the array of the declared length, which is returned.
readSectionLocal ==
  /\ spc = "local"
  /\ IF Len(buf) < SecLen
     THEN /\ buf' = Append(buf, GBByte(index, Len(buf)))
          /\ i' = i + 1
          /\ UNCHANGED <<spc, index, result>>
     ELSE /\ Return(buf)
          /\ UNCHANGED <<buf, i>>
  /\ wrote' = NoWrite
  /\ UNCHANGED <<secRest, syncSections, useNewProtocol, otherBuf, recvData, pollCount,
                 sendBufData, sendIndex, outSNG, inboxSNG, peerNew, peerSec, peerPhase,
                 peerPos>>

\* The peer, itself in a synchronous exchange.  It reports a position only
\* after it got our byte for the one before, and data of a section only after
\* we announced that section.
Announced(sec) ==
  \/ index > sec
  \/ index = sec /\ spc \in {"synchSynchSection", "exchange", "handshake", "done"}

Reported(sec, pos) ==
  \/ index > sec
  \/ index = sec /\ spc \in {"exchange", "handshake", "done"} /\ i >= pos

peerAdvances ==
  /\ syncSections
  /\ spc # "off"
  /\ \/ /\ peerPhase = "marker" /\ Announced(peerSec)
        /\ peerPhase' = "data" /\ peerPos' = 0
        /\ UNCHANGED peerSec
     \/ /\ peerPhase = "data" /\ Reported(peerSec, peerPos)
        /\ IF peerPos < SecLen - 1
           THEN peerPos' = peerPos + 1 /\ UNCHANGED peerPhase
           ELSE peerPhase' = "complete" /\ UNCHANGED peerPos
        /\ UNCHANGED peerSec
     \/ /\ peerPhase = "complete" /\ peerSec < LastSection
        /\ peerSec' = peerSec + 1
        /\ peerPhase' = "marker" /\ peerPos' = 0
  /\ wrote' = NoWrite
  /\ UNCHANGED <<secRest, spc, index, syncSections, useNewProtocol, i, buf, otherBuf,
                 recvData, pollCount, sendBufData, sendIndex, outSNG, inboxSNG, result,
                 peerNew>>

\* The positions a packet of the peer still holds: all of them in the NEW
\* format's eight slots, the last two in the OLD format's.
PeerWindow == IF peerNew THEN 0 .. peerPos
              ELSE {pos \in 0 .. peerPos : pos >= peerPos - 1}

\* The relay delivers the peer's current packet (last value per tag, in
\* order).  The newest position may carry NO_INPUT for a cartridge not ready.
peerSendsSNG ==
  /\ syncSections
  /\ spc \in {"synchSynchSection", "exchange", "handshake"}
  /\ \E newest \in {PeerByte(peerSec, peerPos), NO_INPUT} :
       LET data == {[pos |-> pos,
                     val |-> IF pos = peerPos THEN newest ELSE PeerByte(peerSec, pos)] :
                      pos \in PeerWindow}
           done == {[pos |-> SecLen, val |-> PeerByte(peerSec, SecLen)]}
       IN inboxSNG' =
            [new |-> peerNew,
             kind |-> IF peerPhase = "marker" THEN "marker" ELSE "data",
             index |-> peerSec,
             entries |-> CASE peerPhase = "marker" -> {}
                           [] peerPhase = "data" -> data
                           [] OTHER -> IF peerNew
                                       THEN {e \in data : e.val # NO_INPUT} \cup done
                                       ELSE done]
  /\ inboxSNG' # inboxSNG
  /\ wrote' = NoWrite
  /\ UNCHANGED <<secRest, spc, index, syncSections, useNewProtocol, i, buf, otherBuf,
                 recvData, pollCount, sendBufData, sendIndex, outSNG, result, peerNew,
                 peerSec, peerPhase, peerPos>>

InitSecSpec ==
  /\ env = TRUE
  /\ InitLink("off") /\ Init3("off") /\ InitSec("readSection") /\ InitParty("off") /\ InitMore("off")
  /\ negotiationPrompt = [p \in Peers |-> FALSE]
  /\ isBuffered = [p \in Peers |-> FALSE]
  /\ wpc = "off"
  /\ rpc = "off"

NextSec ==
  \/ readSection
  \/ synchSynchSection
  \/ pollTradeData
  \/ exchangeByte
  \/ mainLoopExit
  \/ finalHandshake
  \/ readSectionLocal
  \/ peerAdvances
  \/ peerSendsSNG

SpecSec == InitSecSpec /\ [][NextSec]_vars

\* The relay out of order: a data packet the peer sent earlier, of this
\* section or of one before, reaches the inbox late or once more.
lateSNG ==
  /\ syncSections
  /\ spc \in {"synchSynchSection", "exchange", "handshake"}
  /\ \E sec \in 1 .. peerSec, last \in 0 .. (SecLen - 1) :
       /\ \/ sec < peerSec
          \/ peerPhase # "marker" /\ last <= peerPos
       /\ inboxSNG' =
            [new |-> peerNew, kind |-> "data", index |-> sec,
             entries |-> {[pos |-> pos, val |-> PeerByte(sec, pos)] :
                            pos \in {q \in 0 .. last : peerNew \/ q >= last - 1}}]
  /\ inboxSNG' # inboxSNG
  /\ wrote' = NoWrite
  /\ UNCHANGED <<secRest, spc, index, syncSections, useNewProtocol, i, buf, otherBuf,
                 recvData, pollCount, sendBufData, sendIndex, outSNG, result, peerNew,
                 peerSec, peerPhase, peerPos>>

\* The section exchange over a relay that may also deliver late.
NextSNG ==
  \/ readSection
  \/ synchSynchSection
  \/ pollTradeData
  \/ exchangeByte
  \/ mainLoopExit
  \/ finalHandshake
  \/ readSectionLocal
  \/ peerAdvances
  \/ peerSendsSNG
  \/ lateSNG

SpecSNG == InitSecSpec /\ [][NextSNG]_vars

\* ------------------------------------------------ party update
\* A faulty variant of the shift loop that leaves the slots where they are.
MoveToEnd_NoShift(slots, tradedPos) == slots

\* The shift loop of updatePeerPartyAfterTrade and of reorderParty on one
\* array: the traded slot (counted from 0) is saved, the slots after it move
\* up by one, and the saved one goes to the end.
MoveToEnd(slots, tradedPos) ==
  LET lastIndex == Len(slots) - 1
  IN IF tradedPos < lastIndex
     THEN [slot \in 1 .. Len(slots) |->
             IF slot - 1 < tradedPos THEN slots[slot]
             ELSE IF slot - 1 < lastIndex THEN slots[slot + 1]
             ELSE slots[tradedPos + 1]]
     ELSE slots

\* trade_mon's second half on one array: the last slot takes the value.
PlaceLast(slots, value) == [slots EXCEPT ![Len(slots)] = value]

\* What the cartridge does to its own party in a trade.
CartridgeTrade(mons, tradedPos, incoming) == PlaceLast(MoveToEnd(mons, tradedPos), incoming)

partyRest == <<linkVars, gen3Vars, secVars, restVars, fllVars, staleMoves>>

\* updatePeerPartyAfterTrade(ourChoice, peerChoice) after a completed trade:
\* the cached peer party (species list and mon data) is reordered and takes
\* our mon; the cartridge then holds our party with the peer's mon.
updatePeerPartyAfterTrade ==
  /\ ppc = "menu"
  /\ tradesDone < MaxTrades
  /\ \E ourIndex \in 0 .. (Len(gbPartyData) - 1),
        peerIndex \in 0 .. (Len(bufferedOtherData1.core) - 1) :
       LET peerParty == bufferedOtherData1
           ourMon == gbPartyData[ourIndex + 1]
           peerMon == peerParty.core[peerIndex + 1]
       IN /\ bufferedOtherData1' =
               [species |-> PlaceLast(MoveToEnd(peerParty.species, peerIndex),
                                      Species(ourMon)),
                core |-> PlaceLast(MoveToEnd(peerParty.core, peerIndex), ourMon)]
          /\ gbPartyData' = CartridgeTrade(gbPartyData, ourIndex, peerMon)
          /\ lastUpdate' = [kind |-> "peerParty", before |-> peerParty.core,
                            traded |-> peerIndex, incoming |-> ourMon]
  /\ tradesDone' = tradesDone + 1
  /\ UNCHANGED <<partyRest, ppc, own, other>>

\* GSCTradingData.tradeMon(other, ownIndex, otherIndex): both parties move
\* the traded mon to the end, then the two last mons and ids are swapped.
tradeMon ==
  /\ ppc = "menu"
  /\ tradesDone < MaxTrades
  /\ \E ownIndex \in 0 .. (Len(own.pokemon) - 1),
        otherIndex \in 0 .. (Len(other.pokemon) - 1) :
       LET ownMons == MoveToEnd(own.pokemon, ownIndex)
           ownIds == MoveToEnd(own.partyInfo, ownIndex)
           otherMons == MoveToEnd(other.pokemon, otherIndex)
           otherIds == MoveToEnd(other.partyInfo, otherIndex)
       IN /\ own' = [pokemon |-> PlaceLast(ownMons, otherMons[Len(otherMons)]),
                     partyInfo |-> PlaceLast(ownIds, otherIds[Len(otherIds)])]
          /\ other' = [pokemon |-> PlaceLast(otherMons, ownMons[Len(ownMons)]),
                       partyInfo |-> PlaceLast(otherIds, ownIds[Len(ownIds)])]
          /\ lastUpdate' = [kind |-> "tradeMon", before |-> own.pokemon,
                            traded |-> ownIndex,
                            incoming |-> other.pokemon[otherIndex + 1]]
  /\ tradesDone' = tradesDone + 1
  /\ UNCHANGED <<partyRest, ppc, bufferedOtherData1, gbPartyData>>

InitPartySpec ==
  /\ env = TRUE
  /\ InitLink("off") /\ Init3("off") /\ InitSec("off") /\ InitParty("menu") /\ InitMore("off")
  /\ negotiationPrompt = [p \in Peers |-> FALSE]
  /\ isBuffered = [p \in Peers |-> FALSE]
  /\ wpc = "off"
  /\ rpc = "off"

NextParty ==
  \/ updatePeerPartyAfterTrade
  \/ tradeMon

SpecParty == InitPartySpec /\ [][NextParty]_vars

\* --------------------------------------- one mediator and its environment
\* Either a Gen 2 link trade against a peer, or a Gen 3 pool trade against
\* the server.
Init ==
  /\ env = TRUE
  /\ wpc = "off"
  /\ rpc = "off"
  /\ InitSec("off") /\ InitParty("off") /\ InitMore("off")
  /\ \/ InitLink("start") /\ Init3("off")
     \/ /\ InitLink("off") /\ Init3("poolTradeLoop")
        /\ ~isBuffered[1]
  /\ negotiationPrompt = [p \in Peers |-> FALSE]
  /\ ~isBuffered[2]

Next ==
  \/ startTrade(Me)
  \/ negReadBuf(Me)
  \/ sitToTable(Me)
  \/ vec2Flood(Me)
  \/ tradeStartingSequence(Me)
  \/ subsequentTradeSequence(Me)
  \/ receiveMVS2(Me)
  \/ receiveMVS2Timeout(Me)
  \/ sendMVS2(Me)
  \/ linkTradeMenuLoop(Me)
  \/ getChosenMonGet(Me)
  \/ getChosenMon(Me)
  \/ waitForAcceptDecline(Me)
  \/ getAcceptedGet(Me)
  \/ getAccepted(Me)
  \/ waitForMessageASK(Me)
  \/ getSuccessGet(Me)
  \/ getSuccess(Me)
  \/ \E tag \in Tags : peerSends(tag)
  \/ poolTradeLoop
  \/ getPoolTradingData
  \/ doTradeChoice
  \/ doTradeAccept
  \/ getAccepted3
  \/ doTradeSuccess
  \/ getSuccess3
  \/ \E tag \in Tags3 : serverSends(tag)

Spec == Init /\ [][Next]_vars

\* -------------------------------------------- two mediators negotiating
InitNeg == InitLink("start") /\ Init3("off") /\ InitSec("off") /\ InitParty("off") /\ InitMore("off") /\ env = FALSE /\ (isBuffered[2] => isBuffered[1]) /\ wpc = "off" /\ rpc = "off"

NextNeg ==
  \/ \E p \in Peers : startTrade(p)
  \/ \E p \in Peers : negReadBuf(p)
  \/ \E p \in Peers : negSend(p)
  \/ \E p \in Peers : negRecv(p)
  \/ \E p \in Peers : negDecide(p)
  \/ \E p \in Peers : negClearBuf(p)
  \/ \E p \in Peers : negPoll(p)
  \/ \E p \in Peers : negTimeout(p)
  \/ \E p \in Peers, tag \in {MSG_BUF, MSG_NEG} : processReceivedData(p, tag)

SpecNeg == InitNeg /\ [][NextNeg]_vars

\* ------------------------------------------ confirming a cartridge event
NO_DATA == 0
threshold == 10
option_confirmation_threshold == 10
POSSIBLE_INDEXES == 112 .. 127
ACCEPT_DECLINE == {114, 113}
SUCCESS_BYTES == (144 .. 159) \cup (112 .. 127)
possible_indexes == {128, 129, 130, 131, 132, 133, 143}
accept_decline_0 == {162, 161}

\* What the Gen 2 cartridge may answer: nothing, no input, two slots (0x70,
\* 0x71 which is also decline), accept 0x72, a success byte and a byte that
\* is none of these.
Reads2 == {NO_DATA, NO_INPUT, 112, 113, 114, 144, 96}

\* A Gen 3 word: the command id is its upper half.
Word(command, low) == command * 65536 + low
command_id(word) == word \div 65536

\* What the Gen 3 cartridge may answer: no word, or a word with a slot, an
\* accept, a decline or another command id, with either of two lower halves.
Reads3 == {Null} \cup {Word(c, l) : c \in {128, 162, 161, 0}, l \in {0, 1}}

\* The calls of the Gen 2 menu loop: waitForChoice(NO_INPUT, POSSIBLE_INDEXES),
\* waitForAcceptDecline(next) and waitForChoice(next, SUCCESS_BYTES), next
\* being the byte the cartridge answered last.
Calls2 ==
  {[initialValue |-> NO_INPUT, valid |-> POSSIBLE_INDEXES]}
  \cup {[initialValue |-> n, valid |-> v] :
          n \in Reads2, v \in {ACCEPT_DECLINE, SUCCESS_BYTES}}

Smaller(a, b) == IF a < b THEN a ELSE b

\* The run of equal reads, as the cartridge produced it.
Run(next) == IF next = lastRead THEN Smaller(runLen + 1, threshold) ELSE 1

\* A faulty variant of the count that goes on when the value changes.
CountAfter_NoRestart(next, found, count) == count + 1

\* The count of waitForChoice after a valid read.
CountAfter(next, found, count) == IF next = found THEN count + 1 ELSE 1

confirmRest == <<linkVars, gen3Vars, secVars, partyVars, fllVars, staleMoves, readVars, floodVars, moreVars>>

waitForChoice(call) ==
  /\ wpc = "idle" /\ rpc \in {"off", "idle"}
  /\ gen' = 2
  /\ validSet' = call.valid
  /\ foundVal' = call.initialValue
  /\ consecutiveReads' = 0
  /\ lastRead' = Null
  /\ runLen' = 0
  /\ wpc' = "loop"
  /\ usedVal' = Null
  /\ UNCHANGED <<stopTrade, isConnected, confirmRest>>

\* One pass of the loop: 0xFE and 0x00 leave everything as it is, a valid
\* read counts, any other read resets the count.
waitForChoiceRead(next) ==
  /\ wpc = "loop" /\ gen = 2
  /\ consecutiveReads < threshold /\ ~stopTrade
  /\ IF next = NO_INPUT \/ next = NO_DATA
     THEN UNCHANGED <<foundVal, consecutiveReads, lastRead, runLen>>
     ELSE /\ consecutiveReads' = IF next \in validSet
                                 THEN CountAfter(next, foundVal, consecutiveReads)
                                 ELSE 0
          /\ foundVal' = next
          /\ lastRead' = next
          /\ runLen' = Run(next)
  /\ UNCHANGED <<stopTrade, isConnected, wpc, gen, validSet, usedVal, confirmRest>>

waitForSetOfValues(values) ==
  /\ wpc = "idle" /\ rpc \in {"off", "idle"}
  /\ gen' = 3
  /\ validSet' = values
  /\ foundVal' = Null
  /\ consecutiveReads' = 0
  /\ lastRead' = Null
  /\ runLen' = 0
  /\ wpc' = "loop"
  /\ usedVal' = Null
  /\ UNCHANGED <<stopTrade, isConnected, confirmRest>>

\* One pass of the Gen 3 loop: a read counts if its command id is valid and
\* the word equals the one read before; any other read resets the count.
waitForSetOfValuesRead(next) ==
  /\ wpc = "loop" /\ gen = 3
  /\ consecutiveReads < option_confirmation_threshold /\ ~stopTrade
  /\ LET found == /\ next # Null
                  /\ command_id(next) \in validSet
                  /\ next = foundVal
     IN consecutiveReads' = IF found THEN consecutiveReads + 1 ELSE 0
  /\ foundVal' = next
  /\ lastRead' = next
  /\ runLen' = Run(next)
  /\ UNCHANGED <<stopTrade, isConnected, wpc, gen, validSet, usedVal, confirmRest>>

\* The loop is left and the caller goes on: with the value, sending it or
\* driving the menu, or, once stopped, without it (the selection is dropped
\* on stopTrade, and nothing leaves a disconnected socket).
confirmReturn ==
  /\ wpc = "loop"
  /\ \/ consecutiveReads >= (IF gen = 2 THEN threshold ELSE option_confirmation_threshold)
     \/ stopTrade
  /\ usedVal' = IF stopTrade \/ ~isConnected THEN Null ELSE foundVal
  /\ wpc' = IF stopTrade THEN "ended" ELSE "idle"
  /\ UNCHANGED <<stopTrade, isConnected, gen, validSet, foundVal, consecutiveReads,
                 lastRead, runLen, confirmRest>>

\* The application's stop button: sets the flag and disconnects the socket.
stopTradeApp ==
  /\ wpc \in {"idle", "loop"}
  /\ ~stopTrade
  /\ stopTrade' = TRUE
  /\ isConnected' = FALSE
  /\ UNCHANGED <<wpc, gen, validSet, foundVal, consecutiveReads, lastRead, runLen,
                 usedVal, confirmRest>>

InitConfirm ==
  /\ env = TRUE
  /\ InitLink("off") /\ Init3("off") /\ InitSec("off") /\ InitParty("off") /\ InitMore("off")
  /\ negotiationPrompt = [p \in Peers |-> FALSE]
  /\ isBuffered = [p \in Peers |-> FALSE]
  /\ wpc = "idle"
  /\ rpc = "off"

NextConfirm ==
  \/ \E call \in Calls2 : waitForChoice(call)
  \/ \E next \in Reads2 : waitForChoiceRead(next)
  \/ \E values \in {possible_indexes, accept_decline_0} : waitForSetOfValues(values)
  \/ \E next \in Reads3 : waitForSetOfValuesRead(next)
  \/ confirmReturn
  \/ stopTradeApp

SpecConfirm == InitConfirm /\ [][NextConfirm]_vars

\* -------------------------------------------- suspension points and stopTrade
SECTION_STARTERS == <<253, 253, 253, 32>>
stopRest == <<linkVars, gen3Vars, secVars, partyVars, fllVars, staleMoves, confirmVars, floodVars, moreVars>>

\* readSection(index, ...) replaying cached data: the first preamble loop
\* sends the starter and is suspended in exchangeByte.  The sequences call it
\* for one section after the other without looking at stopTrade.
readSectionCached(idx, length) ==
  /\ rpc = "idle" /\ wpc = "idle"
  /\ rindex' = idx
  /\ rlength' = length
  /\ ri' = 0
  /\ sentToGB' = <<>>
  /\ rpc' = IF ~stopTrade THEN "preamble1"
            ELSE IF length - 1 > 0 THEN "data" ELSE "idle"
  /\ UNCHANGED <<awaited, stopRest>>

\* Preamble stage 1: until the cartridge answers the starter or stopTrade is
\* set; stage 2 then sends the starter again unless stopTrade is set, in
\* which case the data loop is next.
readSectionPreamble1(recv) ==
  /\ rpc = "preamble1"
  /\ rpc' = IF recv # SECTION_STARTERS[rindex + 1] /\ ~stopTrade THEN "preamble1"
            ELSE IF ~stopTrade THEN "preamble2"
            ELSE IF rlength - 1 > 0 THEN "data" ELSE "idle"
  /\ UNCHANGED <<rindex, rlength, ri, sentToGB, awaited, stopRest>>

\* Preamble stage 2: until the cartridge answers another byte than the
\* starter or stopTrade is set; the data loop is next.
readSectionPreamble2(next) ==
  /\ rpc = "preamble2"
  /\ rpc' = IF next = SECTION_STARTERS[rindex + 1] /\ ~stopTrade THEN "preamble2"
            ELSE IF rlength - 1 > 0 THEN "data" ELSE "idle"
  /\ UNCHANGED <<rindex, rlength, ri, sentToGB, awaited, stopRest>>

\* The data loop: iteration i sends peerSectionData[i] and stores the answer
\* at i + 1, for i from 0 to length - 2, whatever stopTrade says; the section
\* is returned right after the loop.
readSectionData ==
  /\ rpc = "data"
  /\ sentToGB' = Append(sentToGB, ri)
  /\ ri' = IF ri + 1 < rlength - 1 THEN ri + 1 ELSE 0
  /\ rpc' = IF ri + 1 < rlength - 1 THEN "data" ELSE "idle"
  /\ UNCHANGED <<rindex, rlength, awaited, stopRest>>

\* waitForMessage(type): resolves at once on a cached message, otherwise
\* registers a listener and stays suspended until the message arrives.
waitForMessage ==
  /\ rpc = "idle" /\ wpc = "idle"
  /\ rpc' = IF awaited THEN "idle" ELSE "waitMsg"
  /\ awaited' = FALSE
  /\ UNCHANGED <<rindex, rlength, ri, sentToGB, stopRest>>

\* The relay delivers the awaited message: the listener resolves the wait.
notifyListener ==
  /\ isConnected
  /\ ~awaited
  /\ rpc \in {"idle", "waitMsg"}
  /\ awaited' = (rpc = "idle")
  /\ rpc' = "idle"
  /\ UNCHANGED <<rindex, rlength, ri, sentToGB, stopRest>>

InitStop ==
  /\ env = TRUE
  /\ InitLink("off") /\ Init3("off") /\ InitSec("off") /\ InitParty("off") /\ InitMore("off")
  /\ negotiationPrompt = [p \in Peers |-> FALSE]
  /\ isBuffered = [p \in Peers |-> FALSE]
  /\ wpc = "idle"
  /\ rpc = "idle"

NextStop ==
  \/ \E idx \in 0 .. 3, length \in 2 .. MaxLength : readSectionCached(idx, length)
  \/ \E recv \in {NO_DATA, 253, 32} : readSectionPreamble1(recv)
  \/ \E next \in {NO_DATA, 253, 32} : readSectionPreamble2(next)
  \/ readSectionData
  \/ waitForMessage
  \/ notifyListener
  \/ stopTradeApp
  \/ \E call \in Calls2 : waitForChoice(call)
  \/ \E next \in Reads2 : waitForChoiceRead(next)
  \/ confirmReturn

SpecStop == InitStop /\ [][NextStop]_vars

\* The mediator's own steps: they are taken whenever they can be.  Whether a
\* message arrives and whether the user stops the trade is up to others.
mediatorSteps ==
  \/ \E idx \in 0 .. 3, length \in 2 .. MaxLength : readSectionCached(idx, length)
  \/ \E recv \in {NO_DATA, 253, 32} : readSectionPreamble1(recv)
  \/ \E next \in {NO_DATA, 253, 32} : readSectionPreamble2(next)
  \/ readSectionData
  \/ waitForMessage
  \/ \E call \in Calls2 : waitForChoice(call)
  \/ \E next \in Reads2 : waitForChoiceRead(next)
  \/ confirmReturn

SpecStopFair == SpecStop /\ WF_vars(mediatorSteps)

\* ------------------------------------ two mediators trading in Buffered mode
\* From startTrade up to the first choice a menu sends: the FLL exchange, the
\* ghost trade and the cycle after it.
InitFLL ==
  /\ InitLink("start") /\ Init3("off") /\ InitSec("off") /\ InitParty("off") /\ InitMore("off")
  /\ env = FALSE
  /\ isBuffered = [p \in Peers |-> TRUE]
  /\ negotiationPrompt = [p \in Peers |-> FALSE]
  /\ wpc = "off"
  /\ rpc = "off"

NextFLL ==
  \/ \E p \in Peers : startTrade(p)
  \/ \E p \in Peers : negReadBuf(p)
  \/ \E p \in Peers : sitToTable(p)
  \/ \E p \in Peers : getEarlyFLL(p)
  \/ \E p \in Peers : readEarlyFLL(p)
  \/ \E p \in Peers : sendBigTradingData(p)
  \/ \E p \in Peers : getBigTradingData(p)
  \/ \E p \in Peers : processReceivedGetFLL(p)
  \/ \E p \in Peers : processReceivedFLL(p)
  \/ \E p \in Peers : subsequentTradeSequence(p)
  \/ \E p \in Peers : sendMVS2(p)
  \/ \E p \in Peers : linkTradeMenuLoop(p)
  \/ \E p \in Peers, tag \in {MSG_BUF, MSG_MVS, MSG_CHC} : processReceivedData(p, tag)

SpecFLL == InitFLL /\ [][NextFLL]_vars

\* --------------------------------------- two mediators in a link session
\* Both mediators from startTrade through the sequences and the menu, in the
\* mode they share, with the relay delivering between them.
InitLink2 ==
  /\ env = FALSE
  /\ negotiationPrompt = [p \in Peers |-> FALSE]
  /\ isBuffered \in {[p \in Peers |-> FALSE], [p \in Peers |-> TRUE]}
  /\ InitLink("start") /\ Init3("off") /\ InitSec("off") /\ InitParty("off") /\ InitMore("off")
  /\ wpc = "off"
  /\ rpc = "off"

\* tradeStartingSequence: its Synchronous form, or the Buffered steps.
startingSequence(p) ==
  \/ ~isBuffered[p] /\ tradeStartingSequence(p)
  \/ getEarlyFLL(p)
  \/ readEarlyFLL(p)
  \/ sendBigTradingData(p)
  \/ getBigTradingData(p)

\* subsequentTradeSequence with its MVS exchange.
subsequentSequence(p) ==
  \/ subsequentTradeSequence(p)
  \/ receiveMVS2(p)
  \/ receiveMVS2Timeout(p)
  \/ sendMVS2(p)

\* linkTradeMenuLoop with the waits of one round.
menuSteps(p) ==
  \/ linkTradeMenuLoop(p)
  \/ getChosenMonGet(p)
  \/ getChosenMon(p)
  \/ waitForAcceptDecline(p)
  \/ getAcceptedGet(p)
  \/ getAccepted(p)
  \/ waitForMessageASK(p)
  \/ getSuccessGet(p)
  \/ getSuccess(p)

\* Nothing is on its way through the relay.
relayIdle ==
  \A q \in Peers : inFlight[q] = {} /\ ~inFlightFLL[q] /\ ~getsFLL[q]

\* What a mediator does by itself.  A step of a mediator takes at least one
\* exchange with its cartridge or one sleep, the relay is quick next to it: a
\* frame that was sent is delivered before either mediator's next step.
linkSteps(p) ==
  /\ relayIdle
  /\ \/ startTrade(p)
     \/ negReadBuf(p)
     \/ sitToTable(p)
     \/ startingSequence(p)
     \/ subsequentSequence(p)
     \/ menuSteps(p)

\* What the relay does for it.
relaySteps(p) ==
  \/ \E tag \in Tags : processReceivedData(p, tag)
  \/ processReceivedGetFLL(p)
  \/ processReceivedFLL(p)

NextLink2 ==
  \/ \E p \in Peers : linkSteps(p)
  \/ \E p \in Peers : relaySteps(p)

SpecLink2 == InitLink2 /\ [][NextLink2]_vars

\* Both cartridges keep responding and the relay keeps delivering: a frame
\* on its way arrives, and a mediator that can take a step whenever the relay
\* is idle does take it (the other side's polling does not hold it up).
SpecLink2Fair ==
  SpecLink2 /\ \A p \in Peers : SF_vars(linkSteps(p)) /\ WF_vars(relaySteps(p))


mailRest == <<linkVars, gen3Vars, secVars, partyVars, confirmVars, readVars, floodVars,
              draw, sec3Vars, codecVars, extraVars, fllVars, staleMoves>>

\* tradeStartingSequence, section 1: the cartridge's party is kept, and a
\* synchronous read keeps the peer's party too.
readSection1 ==
  /\ mpc = "section1"
  /\ \E gb \in Parties, peer \in Parties :
       /\ gbSection1' = gb
       /\ peerPartyData' = IF useSyncForSection(1, FALSE) THEN peer ELSE peerPartyData
  /\ mpc' = "mail"
  /\ UNCHANGED <<mailRest, skipSync, sentSNG, mailPath, bufferedOther3>>

\* tradeStartingSequence, mail detection and readSection(3, mail, skipMailSync).
readMailSection ==
  /\ mpc = "mail"
  /\ LET ownPartyHasMail == partyHasMail(gbSection1)
         peerPartyHasMail == partyHasMail(peerPartyData)
         hasAnyMail == ownPartyHasMail \/ peerPartyHasMail
         skipMailSync == isBuffered[Me] \/ ~hasAnyMail
     IN /\ skipSync' = skipMailSync
        /\ sentSNG' = useSyncForSection(3, skipMailSync)
        /\ mailPath' = IF useBufferedRead THEN "buffered"
                       ELSE IF useSyncForSection(3, skipMailSync) THEN "sync"
                       ELSE "local"
  /\ mpc' = "done"
  /\ UNCHANGED <<mailRest, gbSection1, peerPartyData, bufferedOther3>>

InitMailSpec ==
  /\ env = TRUE
  /\ InitLink("off") /\ Init3("off") /\ InitSec("off") /\ InitParty("off") /\ InitMore("mail")
  /\ negotiationPrompt = [p \in Peers |-> FALSE]
  /\ ~isBuffered[2]
  /\ bufferedOther3 => isBuffered[Me]
  /\ wpc = "off"
  /\ rpc = "off"

NextMail ==
  \/ readSection1
  \/ readMailSection

SpecMail == InitMailSpec /\ [][NextMail]_vars

sec3Rest == <<linkVars, gen3Vars, secVars, partyVars, confirmVars, readVars, floodVars,
              draw, mailVars, codecVars, extraVars, fllVars, staleMoves>>

\* The word the cartridge's answer carries for a block: the block of its
\* section, or a garbled one while the cable has glitches left.
Words3(position) ==
  {[next |-> CartridgeSection[position], glitch |-> 0]}
    \cup (IF glitches < MaxGlitch
          THEN {[next |-> CartridgeSection[position] + 1, glitch |-> 1]} ELSE {})

\* The handling of a valid word in readSection: the word goes into the
\* buffer; a block seen for the first time is marked, and the last one
\* triggers the validation when the copy has one.
storeWord(since, sinceFirst, res, word, validate) ==
  LET position == res.position
      filled == [buf3 EXCEPT ![position] = word.next]
      first == ~completedData[position]
      last == first /\ numUncompleted = 1
      valid == validate => areChecksumValid(filled)
  IN /\ buf3' = filled
     /\ glitches' = glitches + word.glitch
     /\ completedData' = IF last /\ ~valid THEN [b \in Blocks |-> FALSE]
                         ELSE [completedData EXCEPT ![position] = TRUE]
     /\ numUncompleted' = IF last /\ ~valid THEN numBlocks
                          ELSE IF first THEN numUncompleted - 1 ELSE numUncompleted
     /\ sinceLastUseful' = IF last /\ ~valid THEN since_last_useful_limit
                           ELSE IF first THEN sinceFirst ELSE since
     /\ hasAllData' = (last /\ valid)
     /\ transferSuccessful' = (last /\ valid /\ sendDataNull)

\* One turn of the while loop of readSection (part_005): ask or swap, count
\* the turn, then handle the cartridge's answer. The loop only compares
\* sinceLastUseful with the limit, so the count stops there.
readSection3 ==
  /\ r3pc = "loop" /\ copy3 = "part_005"
  /\ ~transferSuccessful /\ ~stopTrade
  /\ \E res \in Results3 :
       LET asks == sinceLastUseful >= since_last_useful_limit /\ ~hasAllData
           counted == Min((IF asks THEN 0 ELSE sinceLastUseful) + 1, since_last_useful_limit)
           since == IF ~res.is_valid /\ ~res.is_asking /\ ~res.is_complete /\ ~res.is_done
                    THEN since_last_useful_limit ELSE counted
       IN IF res.is_asking
          THEN /\ sinceLastUseful' = since
               /\ UNCHANGED <<completedData, buf3, numUncompleted, hasAllData,
                              transferSuccessful, glitches>>
          ELSE IF ~(res.is_done /\ res.is_complete)
          THEN IF ~hasAllData /\ res.is_valid
               THEN \E word \in Words3(res.position) : storeWord(since, 0, res, word, TRUE)
               ELSE /\ sinceLastUseful' = since
                    /\ UNCHANGED <<completedData, buf3, numUncompleted, hasAllData,
                                   transferSuccessful, glitches>>
          ELSE /\ transferSuccessful' = hasAllData
               /\ sinceLastUseful' = since
               /\ UNCHANGED <<completedData, buf3, numUncompleted, hasAllData, glitches>>
  /\ UNCHANGED <<sec3Rest, r3pc, copy3, sendDataNull>>

\* One turn of the while loop of readSection (services/RSESPTrading.js): an
\* ask turn only takes the range the cartridge asks for; a swap turn
\* handles the answer; the full bitmap sets hasAllData without a validation.
readSection3Services ==
  /\ r3pc = "loop" /\ copy3 = "services"
  /\ ~transferSuccessful
  /\ \E res \in Results3 :
       LET asks == sinceLastUseful >= since_last_useful_limit /\ ~hasAllData
           since == Min((IF asks THEN 0 ELSE sinceLastUseful) + 1, since_last_useful_limit)
       IN IF asks \/ res.is_asking
          THEN /\ sinceLastUseful' = since
               /\ UNCHANGED <<completedData, buf3, numUncompleted, hasAllData,
                              transferSuccessful, glitches>>
          ELSE IF ~(res.is_done /\ res.is_complete)
          THEN IF ~hasAllData /\ res.is_valid
               THEN \E word \in Words3(res.position) : storeWord(since, 1, res, word, FALSE)
               ELSE /\ sinceLastUseful' = since
                    /\ UNCHANGED <<completedData, buf3, numUncompleted, hasAllData,
                                   transferSuccessful, glitches>>
          ELSE /\ transferSuccessful' = hasAllData
               /\ sinceLastUseful' = since
               /\ UNCHANGED <<completedData, buf3, numUncompleted, hasAllData, glitches>>
  /\ UNCHANGED <<sec3Rest, r3pc, copy3, sendDataNull>>

\* The loop ends and readSection returns the buffer.
readSection3Return ==
  /\ r3pc = "loop"
  /\ transferSuccessful
  /\ r3pc' = "returned"
  /\ UNCHANGED <<sec3Rest, copy3, sendDataNull, completedData, buf3, numUncompleted,
                 sinceLastUseful, hasAllData, transferSuccessful, glitches>>

InitSec3Spec ==
  /\ env = TRUE
  /\ negotiationPrompt = [p \in Peers |-> FALSE]
  /\ isBuffered = [p \in Peers |-> FALSE]
  /\ InitLink("off") /\ Init3("off") /\ InitSec("off") /\ InitParty("off") /\ InitMore("sec3")
  /\ wpc = "off"
  /\ rpc = "off"

NextSec3 ==
  \/ readSection3
  \/ readSection3Services
  \/ readSection3Return

SpecSec3 == InitSec3Spec /\ [][NextSec3]_vars

codecRest == <<linkVars, gen3Vars, secVars, partyVars, confirmVars, readVars, floodVars,
               draw, mailVars, sec3Vars, extraVars, fllVars, staleMoves>>

\* _decryptAndValidate(): the words are decrypted and summed, the sum is
\* compared with the stored one, and the four substructures are cut out of
\* the blocks the order names.
decryptAndValidate ==
  /\ cpc = "record"
  /\ LET decrypted_data == XorWords(monValues.enc, monValues.pid, monValues.ot_id)
         checksum == Checksum(decrypted_data, ENC_DATA_LEN \div 4)
         storedChecksum == readShort(monValues.checksum)
         order == enc_positions[PidIndex(monValues.pid)]
     IN /\ checksumFailed' = (checksum # storedChecksum)
        /\ subs' = [growth |-> Slice(decrypted_data, Pair(order, 0)),
                    attacks |-> Slice(decrypted_data, Pair(order, 1)),
                    evs |-> Slice(decrypted_data, Pair(order, 2)),
                    misc |-> Slice(decrypted_data, Pair(order, 3))]
  /\ cpc' = "decrypted"
  /\ UNCHANGED <<codecRest, monValues0, monValues>>

\* encryptData(): the substructures are shuffled back, summed and
\* encrypted; a failed checksum stays wrong by one.
encryptData ==
  /\ cpc = "decrypted"
  /\ LET order == enc_positions[PidIndex(monValues.pid)]
         decrypted_data == ReverseShuffle(order, subs)
         sum == Checksum(decrypted_data, ENC_DATA_LEN \div 4)
         checksum == IF checksumFailed THEN (sum + 1) % 65536 ELSE sum
     IN monValues' = [monValues EXCEPT
                     !.enc = XorWords(decrypted_data, monValues.pid, monValues.ot_id),
                     !.checksum = writeShort(checksum)]
  /\ cpc' = "encrypted"
  /\ UNCHANGED <<codecRest, monValues0, subs, checksumFailed>>

InitCodecSpec ==
  /\ env = TRUE
  /\ negotiationPrompt = [p \in Peers |-> FALSE]
  /\ isBuffered = [p \in Peers |-> FALSE]
  /\ InitLink("off") /\ Init3("off") /\ InitSec("off") /\ InitParty("off") /\ InitMore("codec")
  /\ wpc = "off"
  /\ rpc = "off"

NextCodec ==
  \/ decryptAndValidate
  \/ encryptData

SpecCodec == InitCodecSpec /\ [][NextCodec]_vars

extraRest == <<linkVars, gen3Vars, secVars, partyVars, confirmVars, readVars, floodVars,
               draw, mailVars, sec3Vars, codecVars, fllVars, staleMoves>>

patchRest == <<extraRest, countVars, fl3Vars, loopVars>>

\* createTradingData: the section's 0xFE bytes are patched out and listed.
createPatches ==
  /\ epc = "section"
  /\ patchData' = createPatchesData(patchData, patchSet).data
  /\ patchSet' = createPatchesData(patchData, patchSet).set
  /\ epc' = "encoded"
  /\ UNCHANGED <<patchRest, section0>>

\* The receiving side restores the 0xFE bytes from the list.
restorePatches ==
  /\ epc = "encoded"
  /\ patchData' = applyPatches(patchData, patchSet, patch_set_base_pos, 0, patchSetsNum)
  /\ epc' = "restored"
  /\ UNCHANGED <<patchRest, section0, patchSet>>

InitPatchSpec ==
  /\ env = TRUE
  /\ negotiationPrompt = [p \in Peers |-> FALSE]
  /\ isBuffered = [p \in Peers |-> FALSE]
  /\ InitLink("off") /\ Init3("off") /\ InitSec("off") /\ InitParty("off") /\ InitMore("patch")
  /\ wpc = "off"
  /\ rpc = "off"

NextPatch ==
  \/ createPatches
  \/ restorePatches

\* ------------------------------------------------ party count readers
countRest == <<extraRest, patchVars, fl3Vars, loopVars>>

isTeamSizeValid(size) == size > 0 /\ size <= MAX_PARTY_MONS

cleanValue(value, valid, default) == IF valid THEN value ELSE default

\* new GSCTradingPartyInfo(data, start): the count is kept when it is 1..6
\* and replaced by 1 otherwise; the six species bytes are copied as they are.
GSCTradingPartyInfo ==
  /\ kpc = "party"
  /\ total' = (IF countByte <= 0 \/ countByte > MAX_PARTY_MONS THEN 1 ELSE countByte)
  /\ kpc' = "info"
  /\ UNCHANGED <<countRest, countByte, actualMons, teamSize, speciesList, slotsUsed>>

\* GSCChecks.cleanTeamSize(val)
cleanTeamSize ==
  /\ kpc = "info"
  /\ teamSize = Null
  /\ teamSize' = cleanValue(countByte, isTeamSizeValid(countByte), 1)
  /\ UNCHANGED <<countRest, kpc, countByte, actualMons, total, speciesList, slotsUsed>>

FREE_VALUE_SPECIES == 255

\* GSCChecks.cleanSpeciesSp(val), once for each byte of the species list in
\* order: speciesListSize is the number of bytes already let through.
cleanSpeciesSp ==
  /\ kpc = "info"
  /\ teamSize # Null
  /\ speciesList = <<>>
  /\ speciesList' =
       [slot \in 1 .. MAX_PARTY_MONS |->
          IF actualMons[slot] = FREE_VALUE_SPECIES \/ slot - 1 >= teamSize
          THEN FREE_VALUE_SPECIES
          ELSE actualMons[slot]]
  /\ UNCHANGED <<countRest, kpc, countByte, actualMons, total, teamSize, slotsUsed>>

\* The slots the reordering of updatePeerPartyAfterTrade writes: the shift
\* loop's targets i - 1 for i in peerIndex + 1 .. partySize - 1, and lastIndex.
shiftedSlots(peerIndex, partySize) ==
  IF peerIndex < partySize - 1
  THEN {slot - 1 : slot \in (peerIndex + 1) .. (partySize - 1)} \cup {partySize - 1}
  ELSE {}

\* updatePeerPartyAfterTrade(ourChoice, peerChoice) as far as the count goes:
\* both indexes are checked against 0..5, partySize is the count byte of the
\* cached section as it is, and our Pokémon is written at partySize - 1.
updatePeerPartySlots ==
  /\ kpc = "info"
  /\ \E ourIndex \in 0 .. (MAX_PARTY_MONS - 1), peerIndex \in 0 .. (MAX_PARTY_MONS - 1) :
       LET partySize == countByte
           lastIndex == partySize - 1
       IN slotsUsed' = shiftedSlots(peerIndex, partySize) \cup {lastIndex}
  /\ kpc' = "updated"
  /\ UNCHANGED <<countRest, countByte, actualMons, total, teamSize, speciesList>>

InitCountSpec ==
  /\ env = TRUE
  /\ negotiationPrompt = [p \in Peers |-> FALSE]
  /\ isBuffered = [p \in Peers |-> FALSE]
  /\ InitLink("off") /\ Init3("off") /\ InitSec("off") /\ InitParty("off") /\ InitMore("count")
  /\ wpc = "off"
  /\ rpc = "off"

NextCount ==
  \/ GSCTradingPartyInfo
  \/ cleanTeamSize
  \/ cleanSpeciesSp
  \/ updatePeerPartySlots

SpecCount == InitCountSpec /\ [][NextCount]_vars

SpecPatch == InitPatchSpec /\ [][NextPatch]_vars

\* ------------------------------------------ Gen 3 link trade (RSESPTrading)
\* Two mediators in linkTradeLoop.  A party payload is told apart by the pass
\* of its sender's loop that made it; the relay delivers a frame at once and
\* answers a GET at once out of the other side's sendDict.  The
\* counter-tagged frames of the menu (choice, accept, success) are taken for
\* the pass they were sent in.
fl3Rest == <<extraRest, patchVars, countVars, loopVars>>

\* The loop top: tradeStartingSequence(null) begins with readSection(null).
linkTradeLoop(p) ==
  /\ lpc[p] = "loop"
  /\ linkCycle[p] < MaxLinkCycles
  /\ linkCycle' = [linkCycle EXCEPT ![p] = @ + 1]
  /\ lpc' = [lpc EXCEPT ![p] = "readSection"]
  /\ UNCHANGED <<fl3Rest, sendDictFL3S, recvDictFL3S, otherData, other_pokemon,
                 sentChosenMon, sentSuccess>>

\* readSection(null) has returned our party: sendBigTradingData stores it in
\* sendDict and sends it, the counter-tagged inbox entries are dropped and
\* forceReceive starts polling.
tradeStartingSequence3(p) ==
  /\ lpc[p] = "readSection"
  /\ sendDictFL3S' = [sendDictFL3S EXCEPT ![p] = linkCycle[p]]
  /\ recvDictFL3S' = [recvDictFL3S EXCEPT ![Other(p)] = linkCycle[p]]
  /\ lpc' = [lpc EXCEPT ![p] = "forceReceive"]
  /\ UNCHANGED <<fl3Rest, linkCycle, otherData, other_pokemon, sentChosenMon,
                 sentSuccess>>

\* One poll of forceReceive(getBigTradingData): an inbox entry is removed and
\* returned; with an empty inbox a GET goes out, which the other side's
\* client answers out of its sendDict if it holds the tag.
forceReceiveFL3S(p) ==
  /\ lpc[p] = "forceReceive"
  /\ IF recvDictFL3S[p] # Null
     THEN /\ otherData' = [otherData EXCEPT ![p] = recvDictFL3S[p]]
          /\ recvDictFL3S' = [recvDictFL3S EXCEPT ![p] = Null]
          /\ lpc' = [lpc EXCEPT ![p] = "readSection2"]
     ELSE /\ recvDictFL3S' = [recvDictFL3S EXCEPT ![p] = sendDictFL3S[Other(p)]]
          /\ UNCHANGED <<otherData, lpc>>
  /\ UNCHANGED <<fl3Rest, linkCycle, sendDictFL3S, other_pokemon, sentChosenMon,
                 sentSuccess>>

\* The second readSection writes the received party to the cartridge; it is
\* kept as other_pokemon and doTrade waits for the player's choice.
readSectionOther(p) ==
  /\ lpc[p] = "readSection2"
  /\ other_pokemon' = [other_pokemon EXCEPT ![p] = otherData[p]]
  /\ lpc' = [lpc EXCEPT ![p] = "doTrade"]
  /\ UNCHANGED <<fl3Rest, linkCycle, sendDictFL3S, recvDictFL3S, otherData,
                 sentChosenMon, sentSuccess>>

\* doTrade: the player's choice goes out with the counter.
sendChosenMon3(p) ==
  /\ lpc[p] = "doTrade"
  /\ sentChosenMon' = [sentChosenMon EXCEPT ![p] = linkCycle[p]]
  /\ lpc' = [lpc EXCEPT ![p] = "getChosenMon"]
  /\ UNCHANGED <<fl3Rest, linkCycle, sendDictFL3S, recvDictFL3S, otherData,
                 other_pokemon, sentSuccess>>

\* forceReceive(getChosenMon) returns once the peer's choice of this pass is
\* there; both accept rounds and the first six success rounds follow.
getChosenMon3(p) ==
  /\ lpc[p] = "getChosenMon"
  /\ sentChosenMon[Other(p)] = linkCycle[p]
  /\ lpc' = [lpc EXCEPT ![p] = "success"]
  /\ UNCHANGED <<fl3Rest, linkCycle, sendDictFL3S, recvDictFL3S, otherData,
                 other_pokemon, sentChosenMon, sentSuccess>>

\* The last success round: ours is sent ...
sendSuccess3(p) ==
  /\ lpc[p] = "success"
  /\ sentSuccess' = [sentSuccess EXCEPT ![p] = linkCycle[p]]
  /\ lpc' = [lpc EXCEPT ![p] = "getSuccess"]
  /\ UNCHANGED <<fl3Rest, linkCycle, sendDictFL3S, recvDictFL3S, otherData,
                 other_pokemon, sentChosenMon>>

\* ... and the peer's received, then handed to the cartridge with
\* sendDataMultipleTimes.
getSuccessLink3(p) ==
  /\ lpc[p] = "getSuccess"
  /\ sentSuccess[Other(p)] = linkCycle[p]
  /\ lpc' = [lpc EXCEPT ![p] = "swapSuccess"]
  /\ UNCHANGED <<fl3Rest, linkCycle, sendDictFL3S, recvDictFL3S, otherData,
                 other_pokemon, sentChosenMon, sentSuccess>>

\* The trade is complete: both FL3S entries are deleted, resetTrade(false)
\* forgets the parties, doTrade returns false and the loop starts over.
tradeCompleted(p) ==
  /\ lpc[p] = "swapSuccess"
  /\ sendDictFL3S' = [sendDictFL3S EXCEPT ![p] = Null]
  /\ recvDictFL3S' = [recvDictFL3S EXCEPT ![p] = Null]
  /\ other_pokemon' = [other_pokemon EXCEPT ![p] = Null]
  /\ lpc' = [lpc EXCEPT ![p] = "loop"]
  /\ UNCHANGED <<fl3Rest, linkCycle, otherData, sentChosenMon, sentSuccess>>

\* stopTrade is set: every wait of the loop returns and the loop ends.
stopLinkTrade(p) ==
  /\ lpc[p] \notin {"off", "ended"}
  /\ lpc' = [lpc EXCEPT ![p] = "ended"]
  /\ UNCHANGED <<fl3Rest, linkCycle, sendDictFL3S, recvDictFL3S, otherData,
                 other_pokemon, sentChosenMon, sentSuccess>>

InitLink3Spec ==
  /\ env = TRUE
  /\ negotiationPrompt = [p \in Peers |-> FALSE]
  /\ isBuffered = [p \in Peers |-> FALSE]
  /\ InitLink("off") /\ Init3("off") /\ InitSec("off") /\ InitParty("off") /\ InitMore("fl3")
  /\ wpc = "off"
  /\ rpc = "off"

NextLink3 ==
  \/ \E p \in Peers : linkTradeLoop(p)
  \/ \E p \in Peers : tradeStartingSequence3(p)
  \/ \E p \in Peers : forceReceiveFL3S(p)
  \/ \E p \in Peers : readSectionOther(p)
  \/ \E p \in Peers : sendChosenMon3(p)
  \/ \E p \in Peers : getChosenMon3(p)
  \/ \E p \in Peers : sendSuccess3(p)
  \/ \E p \in Peers : getSuccessLink3(p)
  \/ \E p \in Peers : tradeCompleted(p)
  \/ \E p \in Peers : stopLinkTrade(p)

SpecLink3 == InitLink3Spec /\ [][NextLink3]_vars

\* --------------------------------------- the session loop and the VEC flood
\* One mediator's startTrade loop, GSCTrading's for generation 2 and
\* RBYTrading's for generation 1, with the interval timer of the flood.
floodRest == <<linkVars, gen3Vars, secVars, partyVars, confirmVars, readVars, draw,
               mailVars, sec3Vars, codecVars, fllVars, staleMoves, patchVars, countVars,
               fl3Vars>>

\* this.MSG_VEC: RBYTrading has the getter; GSCTrading and TradingProtocol
\* define none, so the property reads as undefined, which the relay client
\* writes into the frame header as the text "undefined".
MSG_VEC(g) == IF g = 1 THEN "VEC1" ELSE "undefined"

versionData == <<4, 0, 0, 0, 0, 0>>

\* setInterval / clearInterval as startVEC2Flood and stopVEC2Flood call them:
\* a timer is set only if the handle is empty and cleared only if it is set.
timersAfterStart == IF vec2FloodInterval[Me] THEN timers ELSE timers + 1
timersAfterStop == IF vec2FloodInterval[Me] THEN timers - 1 ELSE timers

\* The loop condition and the loop top: startVEC2Flood, then the wait for the
\* cartridge to sit at the table.
loopTop ==
  /\ tpc = "loop"
  /\ IF stopTrade
     THEN /\ tpc' = "ended"
          /\ UNCHANGED <<passes, timers, msgTag, vec2FloodInterval>>
     ELSE /\ passes < MaxPasses
          /\ passes' = passes + 1
          /\ timers' = timersAfterStart
          /\ msgTag' = IF vec2FloodInterval[Me] THEN msgTag ELSE MSG_VEC(generation)
          /\ vec2FloodInterval' = startVEC2Flood(Me)
          /\ tpc' = "sit"
  /\ UNCHANGED <<floodRest, generation, emitted, sendDictVEC>>

\* The sit has returned.  GSCTrading leaves the loop, stopping the flood, if
\* the player left the room or stopTrade is set, and goes on with the flood
\* running otherwise; RBYTrading stops the flood and goes on.
sitReturn ==
  /\ tpc = "sit"
  /\ \E sitResult \in BOOLEAN :
       IF generation = 2 /\ sitResult /\ ~stopTrade
       THEN /\ tpc' = "sequence"
            /\ UNCHANGED <<timers, vec2FloodInterval>>
       ELSE /\ tpc' = IF generation = 2 THEN "ended" ELSE "sequence"
            /\ timers' = timersAfterStop
            /\ vec2FloodInterval' = stopVEC2Flood(Me)
  /\ UNCHANGED <<floodRest, generation, passes, msgTag, emitted, sendDictVEC>>

\* The starting or subsequent sequence, menu included, has returned:
\* GSCTrading stops the flood at the end of the try block.
sequenceReturn ==
  /\ tpc = "sequence"
  /\ tpc' = "loop"
  /\ timers' = IF generation = 2 THEN timersAfterStop ELSE timers
  /\ vec2FloodInterval' = IF generation = 2 THEN stopVEC2Flood(Me) ELSE vec2FloodInterval
  /\ UNCHANGED <<floodRest, generation, passes, msgTag, emitted, sendDictVEC>>

\* An awaited call of the try block throws (the USB layer throws when the
\* device is gone).  GSCTrading's catch logs and sleeps; RBYTrading's catch
\* breaks out of the loop if stopTrade is set (or the error's text has "stop"
\* in it, which no error of the USB layer has) and sleeps otherwise.  Neither
\* touches the flood.
tradeError ==
  /\ tpc \in {"sit", "sequence"}
  /\ tpc' = IF generation = 1 /\ stopTrade THEN "ended" ELSE "catch"
  /\ UNCHANGED <<floodRest, generation, passes, timers, msgTag, emitted, floodVars>>

\* The sleep of the catch block is over: back to the loop condition.
catchReturn ==
  /\ tpc = "catch"
  /\ tpc' = "loop"
  /\ UNCHANGED <<floodRest, generation, passes, timers, msgTag, emitted, floodVars>>

\* The interval timer fires: ws.sendData(tag, versionData) if the relay is
\* connected.  GSCTrading's closure sends the tag it captured, RBYTrading's
\* reads the getter.
vec2FloodSend ==
  /\ vec2FloodInterval[Me]
  /\ isConnected
  /\ emitted' = [tag |-> IF generation = 2 THEN msgTag ELSE MSG_VEC(generation),
                 data |-> versionData]
  /\ sendDictVEC' = [sendDictVEC EXCEPT ![Me] = TRUE]
  /\ UNCHANGED <<floodRest, tpc, generation, passes, timers, msgTag, vec2FloodInterval>>

InitFloodSpec ==
  /\ env = TRUE
  /\ negotiationPrompt = [p \in Peers |-> FALSE]
  /\ isBuffered = [p \in Peers |-> FALSE]
  /\ InitLink("off") /\ Init3("off") /\ InitSec("off") /\ InitParty("off") /\ InitMore("flood")
  /\ wpc = "idle"
  /\ rpc = "off"

NextFlood ==
  \/ loopTop
  \/ sitReturn
  \/ sequenceReturn
  \/ tradeError
  \/ catchReturn
  \/ vec2FloodSend
  \/ stopTradeApp

SpecFlood == InitFloodSpec /\ [][NextFlood]_vars

\* ------------------------------------------------------------ properties
CounterCheckedTags == {MSG_CHC, MSG_ACP, MSG_SUC, MSG_MVS} \cup Tags3
MenuTags == {MSG_CHC, MSG_ACP, MSG_ASK, MSG_SUC}

\* The expected inbound and the outbound counter of the mediator that is
\* running: Gen 3's other_id / own_id, or Gen 2's peerCounterId / ownCounterId.
Gen3Active == pc3 # "off"
ExpectedCounter == IF Gen3Active THEN other_id ELSE peerCounterId[Me]
OutboundCounter == IF Gen3Active THEN own_id ELSE ownCounterId[Me]

\* C1: a frame for a counter-checked tag (CHC, ACP, SUC, MVS, the Gen 3 tags)
\* that meets an expected counter is accepted if and only if its counter is
\* at most 128 ahead of the expected one modulo 256.
C1_AcceptedIffInWindow ==
  (rcv.tag \in CounterCheckedTags /\ rcv.expected # Null)
    => (rcv.accepted <=> Diff(rcv.ctr, rcv.expected) <= 128)

\* C2: every value the trade menu acts on (the peer's selection, its
\* accept/decline, its success byte, its need-data byte) comes from a frame
\* whose counter is inside the window of the expected counter.
C2_MenuActsOnCheckedOnly ==
  (rcv.tag \in MenuTags /\ rcv.accepted /\ rcv.expected # Null)
    => Diff(rcv.ctr, rcv.expected) <= 128

\* C3: whenever the negotiation has completed on both peers, both hold the
\* same mode.
C3_SameMode ==
  (\A p \in Peers : npc[p] = "done") => isBuffered[1] = isBuffered[2]

\* C4: every byte written to the cartridge in a synchronous exchange is the
\* byte of the peer's cartridge at that position of that section, known
\* before the write, and the cartridge's answer is our byte at the next
\* position.
C4_WritesPeerByte ==
  wrote.sec # 0 =>
    /\ wrote.val # Null
    /\ wrote.val = PeerByte(wrote.sec, wrote.pos)
    /\ Len(buf) = wrote.pos + 2
    /\ buf[wrote.pos + 2] = wrote.answer
    /\ otherBuf[wrote.pos + 1] = wrote.val

C4_Witness_LastOfSecond ==
  /\ wrote.sec = LastSection /\ wrote.pos = SecLen - 1
  /\ useNewProtocol
  /\ wrote.val = PeerByte(LastSection, SecLen - 1)

\* C5: a section returned by readSection has the length of its section.
C5_SectionLength ==
  result # <<>> => Len(result) = SecLen

\* The party a trade started from without its traded slot (counted from 0).
WithoutTraded(before, traded) ==
  [slot \in 1 .. (Len(before) - 1) |->
     IF slot <= traded THEN before[slot] ELSE before[slot + 1]]

UpdatedParty ==
  IF lastUpdate.kind = "peerParty" THEN bufferedOtherData1.core ELSE own.pokemon

UpdatedSpecies ==
  IF lastUpdate.kind = "peerParty" THEN bufferedOtherData1.species ELSE own.partyInfo

\* C6: after a party update the party has the size it had, the incoming mon
\* is in the last slot, the mons before it are the old party without the
\* traded one in the old order, and the species list names the mons slot by
\* slot.
C6_TradeMutation ==
  lastUpdate.kind # "none" =>
    /\ Len(UpdatedParty) = Len(lastUpdate.before)
    /\ UpdatedParty[Len(UpdatedParty)] = lastUpdate.incoming
    /\ SubSeq(UpdatedParty, 1, Len(UpdatedParty) - 1)
         = WithoutTraded(lastUpdate.before, lastUpdate.traded)
    /\ UpdatedSpecies = SpeciesList(UpdatedParty)

C6_Witness_MiddleSlot ==
  /\ lastUpdate.kind = "peerParty"
  /\ Len(lastUpdate.before) = MaxParty
  /\ lastUpdate.traded = 1
  /\ bufferedOtherData1.core[MaxParty] = lastUpdate.incoming
  /\ tradesDone = 2

C8_CountersCarried ==
  [][/\ ExpectedCounter # Null => ExpectedCounter' # Null
     /\ OutboundCounter # Null => OutboundCounter' # Null]_vars

\* C9: every frame sent carries the outbound counter, which moves by one
\* with the send, and the frame sent before it in the session (one mediator,
\* reconnects of the pool loop included) carried the counter just below
\* (modulo 256).
C9_ConsecutiveSends ==
  snd.tag # "none" =>
    /\ snd.prev # Null => snd.ctr = (snd.prev + 1) % 256
    /\ IF Gen3Active THEN own_id = snd.ctr
       ELSE ownCounterId[snd.peer] = (snd.ctr + 1) % 256

C11_OneFLLEachWay ==
  \A p \in Peers :
    (isBuffered[p] /\ pc[p] = "menu") => (fllSends[p] = 1 /\ bufferedOtherData[p])

\* C12: the first Buffered cycle of a session is a ghost trade: in its menu
\* the cartridge holds the default party and the cancel path is armed; no
\* selection has gone to the peer before the second cycle; and the second
\* cycle's menu is reached with the peer's data fed to the cartridge.
C12_FirstCycleGhost ==
  \A p \in Peers :
    isBuffered[p] =>
      /\ (cycles[p] = 1 /\ pc[p] = "menu") =>
            (tradeData[p] = "default" /\ cancelCurrentTrade[p])
      /\ cycles[p] <= 1 => sendDict[p][MSG_CHC] = NoMsg
      /\ (cycles[p] = 2 /\ pc[p] = "menu") => tradeData[p] = "peer"

C15_MovesRefreshed ==
  [][\A p \in Peers :
       /\ (pc[p] = "subSeq" /\ pc'[p] # "subSeq" /\ staleMoves[p]) =>
            pc'[p] = "recvMVS"
       /\ (pc[p] = "recvMVS" /\ pc'[p] = "cached" /\ rcv'.tag = MSG_MVS) =>
            ~staleMoves'[p]
       /\ (pc[p] = "cached" /\ pc'[p] = "menu" /\ ownBlankTrade[p]) =>
            (snd'.tag = MSG_MVS /\ snd'.peer = p)]_vars

C17_StopLeavesLoops ==
  [][stopTrade =>
       /\ (rpc # "idle" /\ <<rpc, ri>>' # <<rpc, ri>>) => rpc' = "idle"
       /\ (wpc = "loop" /\ <<wpc, consecutiveReads, foundVal>>' #
                             <<wpc, consecutiveReads, foundVal>>) => wpc' # "loop"]_vars

\* The shared state of a mediator other than its inbox: outbox, counters,
\* mode and caches.
SharedState(p) ==
  <<sendDict[p], ownCounterId[p], peerCounterId[p], lastPeerBufCounter[p],
    isBuffered[p], bufferedOtherData[p], ownBlankTrade[p], otherBlankTrade[p]>>

MenuStates == {"menu", "getCHC", "chkCHC", "accept", "getACP", "chkACP",
               "waitASK", "getSUC", "chkSUC"}

\* C19: the VEC flood is not running while the mediator is in the menu.
C19_NoFloodInMenu ==
  \A p \in Peers : pc[p] \in MenuStates => ~vec2FloodInterval[p]

\* C20: with SNG frames late, out of order or repeated, the cartridge is
\* still written each position once, in order, and with the byte of the
\* peer's cartridge at that position of that section.
C20_LateFramesHarmless ==
  wrote.sec # 0 =>
    /\ wrote.pos = i - 1
    /\ Len(otherBuf) = i
    /\ wrote.val = PeerByte(wrote.sec, wrote.pos)

\* C21: synchExchangeSection returns only with our completion marker sent
\* and a slot of the peer at a position of length or beyond received.
C21_ExitAfterMarkers ==
  [][(spc = "handshake" /\ spc' # "handshake") =>
       /\ \E e \in outSNG'.entries : e.pos = SecLen
       /\ \E e \in getSwappableBytes(inboxSNG, SecLen + 1, index) : e.pos >= SecLen]_vars

\* C22: no slot of an SNG data packet we send carries 0xFE as its value,
\* and the byte written to the cartridge is the peer's byte as received.
C22_NoInputReplaced ==
  /\ outSNG.kind = "data" => \A e \in outSNG.entries : e.val # NO_INPUT
  /\ wrote.sec # 0 => wrote.val = otherBuf[wrote.pos + 1]

\* C23: after a draw with unequal values the mediator that drew higher keeps
\* its mode, and a fresh BUF is sent by the one that drew lower only, carrying
\* the winner's mode or, after a refusal, its own.
C23_OnlyLoserDecides ==
  [][\A p \in Peers :
       /\ (draw[p] = "won" /\ npc[p] # "done") => isBuffered'[p] = isBuffered[p]
       /\ (npc[p] = "step2" /\ snd'.peer = p /\ snd'.tag = MSG_BUF) =>
            /\ draw[p] = "lost"
            /\ sendDict'[p][MSG_BUF].val \in
                 {ModeByte(peerCurrentMode[p]), ModeByte(isBuffered[p])}]_vars

\* C24: a tie is a round and is drawn again; the tenth round without a
\* winner ends the negotiation with the mode Synchronous, and no earlier
\* round without a winner ends it.
C24_NoConvergeSync ==
  [][\A p \in Peers :
       (/\ npc[p] = "negWait" /\ npc'[p] # "negWait"
        /\ recvDict[p][MSG_NEG].val = ourNegValue[p]) =>
         IF attempts[p] + 1 >= MAX_ATTEMPTS
         THEN npc'[p] = "done" /\ isBuffered'[p] = FALSE
         ELSE /\ npc'[p] = "negSend" /\ attempts'[p] = attempts[p] + 1
              /\ isBuffered'[p] = isBuffered[p]]_vars

\* The Buffered mediator after ten ties: done, Synchronous, no draw decided.
C24_Witness_TenTies ==
  /\ npc[1] = "done" /\ draw[1] = "null"
  /\ sendDict[1][MSG_NEG] # NoMsg
  /\ ~isBuffered[1]

\* C25: whenever a G BUF of a mediator is on its way to the counterpart, the
\* counterpart's outbox holds a BUF value to answer it with.
C25_BufInPlace ==
  \A p \in Peers :
    (~env /\ MSG_BUF \in inFlight[p]) => sendDict[Other(p)][MSG_BUF] # NoMsg

\* C26: a wait for a message of the relay ends, whether or not the message
\* ever arrives.
C26_WaitEnds == (rpc = "waitMsg") ~> (rpc # "waitMsg")

\* C27: a position whose polls ran out does not end the exchange: the main
\* loop is left only with every position of the section exchanged, and a
\* position waited for is never stuck with its polls used up.
C27_TimeoutContinues ==
  [][(spc = "exchange" /\ spc' # "exchange") => i = SecLen]_vars

C29_DoneOnlyIfValid ==
  transferSuccessful =>
    /\ \A b \in Blocks : completedData[b]
    /\ areChecksumValid(buf3)

C31_RestoreEncode ==
  epc = "restored" => patchData = section0

\* C32: every party count the mediator holds is in 1..6, every slot index it
\* derives from a party count is in 0..5, and the species slots after the
\* count hold 0xFF.
C32_CountClamped ==
  /\ total # Null => total \in 1 .. MAX_PARTY_MONS
  /\ teamSize # Null => teamSize \in 1 .. MAX_PARTY_MONS
  /\ slotsUsed \subseteq 0 .. (MAX_PARTY_MONS - 1)
  /\ speciesList # <<>> =>
       \A slot \in (teamSize + 1) .. MAX_PARTY_MONS : speciesList[slot] = FREE_VALUE_SPECIES

\* C33: with both cartridges responding and the relay delivering, a round in
\* which both players selected a Pokémon and both accepted ends with the
\* trade counted on both sides, and a mediator that waits for a message of
\* its peer (the FLL of a ghost trade, the ASK after both accepted) gets it
\* unless the peer leaves the session.
BothAccepted(k) ==
  \A p \in Peers : /\ completedTradeCount[p] = k
                   /\ ourChoice[p] = FIRST_TRADE_INDEX
                   /\ ourAccept[p] = ACCEPT_TRADE

C33_TradeCompletes ==
  /\ \A k \in 0 .. (MaxCycles - 1) :
       BothAccepted(k) ~> (\A p \in Peers : completedTradeCount[p] > k)
  /\ \A p \in Peers : (pc[p] = "getFLL") ~> (pc[p] # "getFLL" \/ pc[Other(p)] = "ended")
  /\ \A p \in Peers : (pc[p] = "waitASK") ~> (pc[p] # "waitASK" \/ pc[Other(p)] = "ended")

\* C34: between two mediators a frame that meets an expected counter carries
\* exactly that counter, unless it is an older frame served again, which is
\* dropped as stale: the expected inbound counter is the counter the peer
\* attaches to its next message.
C34_CountersAgree ==
  (~env /\ rcv.tag # "none" /\ rcv.expected # Null)
    => \/ rcv.ctr = rcv.expected
       \/ ~rcv.accepted /\ Diff(rcv.ctr, rcv.expected) > 128

\* C35: the ASK a mediator takes from its inbox in a trade cycle is the one
\* its peer sent in that cycle, not the ASK of an earlier cycle taken again:
\* the peer has counted as many trades and is past the point where it sends
\* its ASK.
AskSentThisCycle(q) == pc[q] \in {"waitASK", "getSUC", "chkSUC"}

C35_ConsumedOnce ==
  \A p \in Peers :
    (~env /\ rcv.tag = MSG_ASK /\ rcv.peer = p) =>
      \/ completedTradeCount[Other(p)] > completedTradeCount[p]
      \/ /\ completedTradeCount[Other(p)] = completedTradeCount[p]
         /\ AskSentThisCycle(Other(p))

\* C36: after a completed trade the two mediators take matching re-entries.
\* In the same re-entry one does not run the full sequence while the other
\* runs the subsequent one, and when one waits for an MVS the other, once it
\* is through its own sequence and in its menu, has sent an MVS in this
\* re-entry (one that is later than the SUC of the trade before; the menu
\* states are those before the SUC of this cycle goes out).
InFullSequence(p) == pc[p] \in {"startSeq", "earlyFLL", "collected", "getFLL"}
InSubsequentSequence(p) == pc[p] \in {"subSeq", "recvMVS", "cached"}
SameReEntry(p, q) ==
  /\ completedTradeCount[p] >= 1 /\ completedTradeCount[q] >= 1
  /\ cycles[p] = cycles[q]
  /\ pc[p] # "ended" /\ pc[q] # "ended"

InMenuBeforeSUC(q) == pc[q] \in {"menu", "getCHC", "chkCHC", "accept", "getACP", "chkACP", "waitASK"}

SentMVSThisReEntry(q) ==
  /\ sendDict[q][MSG_MVS] # NoMsg
  /\ sendDict[q][MSG_SUC] # NoMsg
  /\ Diff(sendDict[q][MSG_MVS].ctr, sendDict[q][MSG_SUC].ctr) \in 1 .. 128

C36_MatchingReEntry ==
  \A p \in Peers :
    LET q == Other(p)
    IN (~env /\ SameReEntry(p, q)) =>
         /\ ~(InFullSequence(p) /\ InSubsequentSequence(q))
         /\ (pc[p] = "recvMVS" /\ InMenuBeforeSUC(q)) => SentMVSThisReEntry(q)

\* A mediator waits for the MVS of a peer that is already in its menu.
C36_Witness_WaitsForSentMVS ==
  \E p \in Peers :
    /\ ~env /\ SameReEntry(p, Other(p))
    /\ pc[p] = "recvMVS"
    /\ pc[Other(p)] \in {"menu", "chkCHC"}
    /\ SentMVSThisReEntry(Other(p))


\* C37: a section fed to the cartridge out of the cached peer data is written
\* whole: once readSection has returned, the positions sent to the cartridge
\* are 0, 1, ..., length - 1, each once and in this order.
C37_SectionWrittenWhole ==
  (rpc = "idle" /\ rlength > 0) =>
    sentToGB = [k \in 1 .. rlength |-> k - 1]

\* C38: in a Gen 3 link trade the peer party written to the cartridge in a
\* pass of the loop is the one the peer made in the same pass, never a
\* payload of the pass before.
C38_PartyOfThisCycle ==
  \A p \in Peers : other_pokemon[p] # Null => other_pokemon[p] = linkCycle[p]


\* C39: a mediator never has more than one flood timer running, and when its
\* session loop has ended no flood timer is left running.
C39_OneTimerNoneAtEnd ==
  /\ timers <= 1
  /\ tpc = "ended" => timers = 0

\* C40: every frame the flood timer sends is the version announcement of the
\* generation in use: tag VEC2 for generation 2, VEC1 for generation 1, with
\* the six bytes of the version.
C40_FloodFrame ==
  emitted # NoFrame =>
    /\ emitted.tag = (IF generation = 2 THEN "VEC2" ELSE "VEC1")
    /\ emitted.data = versionData
    /\ Len(emitted.data) = 6


====
